---- MODULE Spec2Model ----
(***************************************************************************)
(* State-machine model of the UHI raster services:                         *)
(*   - the windowed index pipelines calculate_ndvi / calculate_ndwi        *)
(*     (services/ingestion/processors) and generate_uhi_prediction         *)
(*     (services/prediction/main.py), with build_overviews (cog.py);       *)
(*   - the prediction service's triggers and its asyncio lock;             *)
(*   - the ingestion service's trigger and its background pipeline;        *)
(*   - the loop bodies of the three pipelines for one pixel, in numpy      *)
(*     float32 arithmetic, up to the uint8 code written;                   *)
(*   - direct calls of build_overviews on one raster;                      *)
(*   - the write profile the pipelines build for their output;             *)
(*   - the prediction service's startup (lifespan) and its subscription.   *)
(***************************************************************************)
EXTENDS Integers, Sequences, FiniteSets, TLC

\* ------------------------------------------------------------------ bounds
\* Largest raster height/width drawn for an input of a pipeline run.
MaxDim == 3
\* Largest tile_size drawn for a pipeline run (tile_size > 0).
MaxTile == 2

\* Number of POST /predict and /predict/manual requests in a behaviour.
MaxReq == 2
\* Number of POST /ingest/orthophotos requests in a behaviour.
MaxIngest == 2
\* Width of the NDVI raster the prediction service reads (its height is 1):
\* one pixel more than a tile, so that a run writes two tiles.
SvcWidth == 2049
\* Band samples drawn for a pixel: -MaxBand..MaxBand and 255-MaxBand..255.
MaxBand == 5
\* Number of direct calls of build_overviews on one raster.
MaxCalls == 2

\* --------------------------------------------------------- program constants
\* TILE_SIZE = 2048  (prediction/main.py)
TILE_SIZE == 2048

\* --------------------------------------------------------------- variables
VARIABLES
    \* --- one pipeline call (calculate_ndvi / calculate_ndwi / generate_uhi_prediction)
    kind,        \* which function runs: "ndvi", "ndwi", "uhi" ("none": no call)
    srcs,        \* the input rasters: name -> [height, width]
    tile_size,   \* the tile_size argument
    ppc,         \* position of the call in its code
    height,      \* local `height`
    width,       \* local `width`
    tile_count,  \* local `tile_count`: windows fully processed so far
    opened,      \* dataset handles currently open
    inflight,    \* band blocks read from the inputs and not yet written
    outFile,     \* the file at the output path
    events,      \* the I/O steps the call has performed, in order
    failedAt,    \* the position at which the call raised ("none": it did not)
    result,      \* what the call gave its caller: "none", "path", "error"
    \* --- prediction service (event loop, lock, Orion)
    task,        \* per request: endpoint, position, response
    locked,      \* asyncio.Lock._locked
    waiters,     \* asyncio.Lock._waiters: requests queued on the lock, FIFO
    woken,       \* waiters whose future release() has completed
    owner,       \* the request whose generate_uhi_prediction call is active (0: none)
    orion,       \* Orion-LD: the UHIHeatMap entity
    hist,        \* per request: what it did (history, for the claims)
    log,         \* the records the running call's logger has emitted
    \* --- ingestion service
    ingestion_status, \* the module global: running, progress, layers_created
    ireq,        \* per ingestion request: position, response
    irun,        \* per ingestion request: its pipeline's progress (history)
    iorion,      \* Orion-LD: the layer types registered by the ingestion service
    \* --- one pixel of a tile in the loop body of a pipeline function
    px_fn,       \* the function: "ndvi", "ndwi", "uhi" ("none": no pixel)
    px_src,      \* the source pixel: band values a, b, dtype, the source's nodata
    px_pc,       \* position in the loop body
    px_den,      \* local `denominator` (float32)
    px_val,      \* local `ndvi` / `ndwi` / `heat_risk` (float32)
    px_mask,     \* local `nodata_mask` at the pixel
    px_code,     \* local `ndvi_uint8` / `ndwi_uint8` / `heat_uint8` at the pixel
    px_out,      \* the pixel dst.write stored (-1: nothing written yet)
    \* --- calls of build_overviews (cog.py) on one raster file
    cog_file,    \* the raster at file_path: overview levels, method, tags
    cog_pc,      \* position of the running call ("idle": none)
    cog_factors, \* local `factors` of the running call
    cog_resampling, \* argument `resampling` of the running call
    cog_calls,   \* per returned call: the path returned and the file it left
    \* --- the write profile a pipeline function builds for its output
    prof_fn,     \* the function: "ndvi", "ndwi", "uhi" ("none": no call)
    prof_src,    \* the profile of the first input dataset (the template)
    prof_dims,   \* locals `height`, `width` of the two-input functions
    prof_pc,     \* position in the profile code
    profile,     \* local `profile`
    prof_dst,    \* the profile the output dataset was created with
    \* --- startup of the prediction service (lifespan)
    st_pc,       \* position in lifespan ("serving": after the yield)
    st_attempt,  \* loop variable `attempt`
    st_calls,    \* calls of _register_prediction_subscription made (history)
    st_ok,       \* a call registered the subscription (history)
    sub,         \* Orion-LD: the prediction subscription exists
    \* --- GeoServer sync service: a call of translate_path
    tp_path,     \* argument `container_path`
    tp_map,      \* the module global PATH_MAPPINGS
    tp_pc,       \* position of the call ("idle": none)
    tp_order,    \* the sorted list of PATH_MAPPINGS keys being scanned
    tp_warned,   \* "No path mapping found" was logged
    tp_result,   \* the string returned
    \* --- GeoServer sync service: GeoServer and the calls of sync_entity
    gs_stores,   \* GeoServer: the coverage stores of the workspace
    gs_covs,     \* GeoServer: the coverages, each under its store
    gs_accepting,\* GeoServer accepts every well-formed request
    gs_log,      \* the requests sent to GeoServer by the current call
    se_entity,   \* the NGSI-LD entity Orion holds and notifies
    se_pc,       \* position of the call of sync_entity
    se_result,   \* the value sync_entity returned
    se_calls,    \* calls of sync_entity made
    pl_args,     \* the arguments of publish_layer (empty: not called)
    pl_pc,       \* position inside publish_layer
    pl_result,   \* the value publish_layer returned
    pl_prev,     \* arguments and GeoServer state at the end of the
                 \* previous call of publish_layer
    \* --- GeoServer sync service: startup (lifespan) and subscription
    gs_workspace,\* GeoServer: the workspace exists
    sy_pc,       \* position of lifespan ("idle": not this service)
    sy_attempt,  \* failed sync-and-subscribe attempts so far
    sy_done,     \* the startup steps completed, in order
    sy_first,    \* Orion's answer to the first POST of the last call of
                 \* register_subscription
    sy_ok,       \* a POST of the subscription was answered 201
    sy_sub       \* Orion-LD: the definitions held under SUBSCRIPTION_ID

pvars == <<kind, srcs, tile_size, ppc, height, width, tile_count, opened,
           inflight, outFile, events, failedAt, result, log>>
svars == <<task, locked, waiters, woken, owner, orion, hist>>
ivars == <<ingestion_status, ireq, irun, iorion>>
xvars == <<px_fn, px_src, px_pc, px_den, px_val, px_mask, px_code, px_out>>
cvars == <<cog_file, cog_pc, cog_factors, cog_resampling, cog_calls>>
fvars == <<prof_fn, prof_src, prof_dims, prof_pc, profile, prof_dst>>
uvars == <<st_pc, st_attempt, st_calls, st_ok, sub>>
tvars == <<tp_path, tp_map, tp_pc, tp_order, tp_warned, tp_result>>
kvars == <<gs_stores, gs_covs, gs_accepting, gs_log, se_entity, se_pc,
           se_result, se_calls, pl_args, pl_pc, pl_result, pl_prev>>
yvars == <<gs_workspace, sy_pc, sy_attempt, sy_done, sy_first, sy_ok,
           sy_sub>>
gvars == <<tvars, kvars, yvars>>
nonsync == <<xvars, cvars, fvars, uvars, pvars, svars, ivars>>
evars == <<fvars, uvars, gvars>>
qvars == <<xvars, cvars, evars>>
vars == <<pvars, svars, ivars, qvars>>

\* ----------------------------------------------------------------- helpers
Min(a, b) == IF a <= b THEN a ELSE b

\* Python's range(0, stop, step) for step > 0, as the sequence it yields.
PyRange(stop, step) ==
    [i \in 1..((stop + step - 1) \div step) |-> (i - 1) * step]

\* rasterio.windows.Window(col_off, row_off, width, height)
Window(col_off, row_off, w, h) ==
    [col_off |-> col_off, row_off |-> row_off, width |-> w, height |-> h]

\* Defective variant: the ladder cut short.
OVERVIEW_FACTORS_short == <<2, 4, 8>>

\* Overview levels: 2x, 4x, 8x, 16x, 32x downsampling
OVERVIEW_FACTORS == <<2, 4, 8, 16, 32>>

\* ------------------------------------------------------------- tile loops
\* Defective variants of ndvi_windows: edge windows not clipped to the raster
\* (win_width = tile_size), and the two loops nested the other way round.
ndvi_windows_unclipped(h, w, t) ==
    LET rows == PyRange(h, t)
        cols == PyRange(w, t)
    IN  [k \in 1..(Len(rows) * Len(cols)) |->
            Window(cols[((k - 1) % Len(cols)) + 1],
                   rows[((k - 1) \div Len(cols)) + 1], t, t)]

ndvi_windows_colmajor(h, w, t) ==
    LET rows == PyRange(h, t)
        cols == PyRange(w, t)
    IN  [k \in 1..(Len(rows) * Len(cols)) |->
            LET row_off == rows[((k - 1) % Len(rows)) + 1]
                col_off == cols[((k - 1) \div Len(rows)) + 1]
            IN  Window(col_off, row_off, Min(t, w - col_off), Min(t, h - row_off))]

\* Defective variant: the loop bounds one too far (range(0, height + 1, ...)).
ndvi_windows_inclusive(h, w, t) ==
    LET rows == PyRange(h + 1, t)
        cols == PyRange(w + 1, t)
    IN  [k \in 1..(Len(rows) * Len(cols)) |->
            LET row_off == rows[((k - 1) \div Len(cols)) + 1]
                col_off == cols[((k - 1) % Len(cols)) + 1]
            IN  Window(col_off, row_off, Min(t, w - col_off), Min(t, h - row_off))]

\* The windows the nested loops of calculate_ndvi generate, in loop order:
\*   for row_off in range(0, height, tile_size):
\*     for col_off in range(0, width, tile_size):
\*       Window(col_off, row_off, min(tile_size, width - col_off),
\*                                min(tile_size, height - row_off))
ndvi_windows(h, w, t) ==
    LET rows == PyRange(h, t)
        cols == PyRange(w, t)
    IN  [k \in 1..(Len(rows) * Len(cols)) |->
            LET row_off == rows[((k - 1) \div Len(cols)) + 1]
                col_off == cols[((k - 1) % Len(cols)) + 1]
                win_height == Min(t, h - row_off)
                win_width == Min(t, w - col_off)
            IN  Window(col_off, row_off, win_width, win_height)]

\* The same loops in calculate_ndwi.
ndwi_windows(h, w, t) ==
    LET rows == PyRange(h, t)
        cols == PyRange(w, t)
    IN  [k \in 1..(Len(rows) * Len(cols)) |->
            LET row_off == rows[((k - 1) \div Len(cols)) + 1]
                col_off == cols[((k - 1) % Len(cols)) + 1]
                win_height == Min(t, h - row_off)
                win_width == Min(t, w - col_off)
            IN  Window(col_off, row_off, win_width, win_height)]

\* The same loops in generate_uhi_prediction.
uhi_windows(h, w, t) ==
    LET rows == PyRange(h, t)
        cols == PyRange(w, t)
    IN  [k \in 1..(Len(rows) * Len(cols)) |->
            LET row_off == rows[((k - 1) \div Len(cols)) + 1]
                col_off == cols[((k - 1) % Len(cols)) + 1]
                win_height == Min(t, h - row_off)
                win_width == Min(t, w - col_off)
            IN  Window(col_off, row_off, win_width, win_height)]

\* The window sequence of the running call.
Windows ==
    CASE kind = "ndvi" -> ndvi_windows(height, width, tile_size)
      [] kind = "ndwi" -> ndwi_windows(height, width, tile_size)
      [] OTHER         -> uhi_windows(height, width, tile_size)

\* The window the loop body is working on (tile_count windows are done).
CurWindow == Windows[tile_count + 1]

\* ------------------------------------------------------------ output file
\* The instants datetime.utcnow() can return during a call ("t0": the instant
\* of an earlier call).
Clock == {"t1", "t2"}

\* The GENERATED_AT tag update_tags stores: generate_uhi_prediction passes
\* GENERATED_AT=datetime.utcnow().isoformat(); calculate_ndvi and
\* calculate_ndwi pass constants and the input paths only ("": no such tag).
GENERATED_AT(k, now) == IF k = "uhi" THEN now ELSE ""

\* No file at the output path.
Absent ==
    [exists |-> FALSE, height |-> 0, width |-> 0, tiles |-> <<>>,
     tags |-> FALSE, generated_at |-> "", overviews |-> <<>>,
     ovr_method |-> "", ovr_tag |-> "", gen |-> 0, replaced |-> FALSE]

\* Defective variant: the output opened for update ('r+'), the dataset at the
\* path kept and written over.
Created_patch(h, w, g) ==
    IF outFile.exists
    THEN [outFile EXCEPT !.height = h, !.width = w, !.tiles = <<>>,
                         !.gen = g, !.replaced = TRUE]
    ELSE [exists |-> TRUE, height |-> h, width |-> w, tiles |-> <<>>,
          tags |-> FALSE, generated_at |-> "", overviews |-> <<>>,
          ovr_method |-> "", ovr_tag |-> "", gen |-> g, replaced |-> FALSE]

\* rasterio.open(output_path, 'w', **profile): a new, empty dataset replaces
\* whatever was at the path (`replaced`: a dataset was there and was deleted).
Created(h, w, g) ==
    [exists |-> TRUE, height |-> h, width |-> w, tiles |-> <<>>,
     tags |-> FALSE, generated_at |-> "", overviews |-> <<>>,
     ovr_method |-> "", ovr_tag |-> "", gen |-> g,
     replaced |-> outFile.exists]

\* The artifact an earlier, successful call (generation 0) left at the path.
Finished(k, h, w, t) ==
    [exists |-> TRUE, height |-> h, width |-> w,
     tiles |-> CASE k = "ndvi" -> ndvi_windows(h, w, t)
                 [] k = "ndwi" -> ndwi_windows(h, w, t)
                 [] OTHER      -> uhi_windows(h, w, t),
     tags |-> TRUE, generated_at |-> GENERATED_AT(k, "t0"),
     overviews |-> OVERVIEW_FACTORS, ovr_method |-> "average",
     ovr_tag |-> "average", gen |-> 0, replaced |-> FALSE]

\* --------------------------------------------------- pipeline: one call
\* A record emitted by logger.info / logger.warning / logger.error.
Record(level, msg) == [level |-> level, msg |-> msg]

\* What the function logs on entry, before it opens anything: "Calculating
\* NDVI from ..." / "Calculating NDWI from ..." / "Generating UHI prediction
\* from ...", then "Output: uint8 COG with overviews, tile size: ...".
EntryLog(k) ==
    <<Record("INFO", IF k = "uhi" THEN "Generating" ELSE "Calculating"),
      Record("INFO", "Output")>>

TwoInputs == kind \in {"ndvi", "ndwi"}

\* The positions from which the next step is an I/O call that can raise.
CanRaise ==
    {"start", "opened1", "inputs_open", "loop", "read1", "computed", "tagged",
     "closed", "ovr_open", "ovr_built", "ovr_tagged"}

\* with rasterio.open(rgb_path) as rgb_src   (ndvi.py:63, ndwi.py:61)
\* with rasterio.open(ndvi_path) as src      (prediction/main.py:410-414)
OpenFirst ==
    /\ ppc = "start"
    /\ IF TwoInputs
       THEN /\ opened' = opened \cup {"rgb_src"}
            /\ ppc' = "opened1"
            /\ UNCHANGED <<height, width, log>>
       ELSE /\ opened' = opened \cup {"src"}
            /\ height' = srcs["src"].height
            /\ width' = srcs["src"].width
            /\ ppc' = "inputs_open"
            /\ log' = Append(log, Record("INFO", "Input dimensions"))
    /\ events' = Append(events, "open_input")
    /\ UNCHANGED <<kind, srcs, tile_size, tile_count, inflight, outFile,
                   failedAt, result, svars, ivars, qvars>>

\* with rasterio.open(nir_path) as nir_src; height/width are the minima.
OpenNir ==
    /\ ppc = "opened1"
    /\ opened' = opened \cup {"nir_src"}
    /\ height' = Min(srcs["rgb"].height, srcs["nir"].height)
    /\ width' = Min(srcs["rgb"].width, srcs["nir"].width)
    /\ ppc' = "inputs_open"
    /\ events' = Append(events, "open_input")
    /\ log' = Append(log, Record("INFO", "Output dimensions"))
    /\ UNCHANGED <<kind, srcs, tile_size, tile_count, inflight, outFile,
                   failedAt, result, svars, ivars, qvars>>

\* with rasterio.open(output_path, 'w', **profile) as dst; tile_count = 0
CreateOutput ==
    /\ ppc = "inputs_open"
    /\ outFile' = Created(height, width, owner)
    /\ opened' = opened \cup {"dst"}
    /\ tile_count' = 0
    /\ ppc' = "loop"
    /\ events' = Append(events, "create")
    /\ UNCHANGED <<kind, srcs, tile_size, log, height, width, inflight, failedAt,
                   result, svars, ivars, qvars>>

\* red/green = rgb_src.read(band, window=window)   (two-input pipelines)
\* ndvi_raw = src.read(1, window=window)           (prediction)
ReadFirst ==
    /\ ppc = "loop"
    /\ tile_count < Len(Windows)
    /\ inflight' = inflight \cup
           {[band |-> (IF TwoInputs THEN "rgb" ELSE "src"), window |-> CurWindow]}
    /\ ppc' = IF TwoInputs THEN "read1" ELSE "computed"
    /\ events' = Append(events, "read")
    /\ UNCHANGED <<kind, srcs, tile_size, log, height, width, tile_count,
                   opened,
                   outFile, failedAt, result, svars, ivars, qvars>>

\* nir = nir_src.read(1, window=window)
ReadNir ==
    /\ ppc = "read1"
    /\ inflight' = inflight \cup {[band |-> "nir", window |-> CurWindow]}
    /\ ppc' = "computed"
    /\ events' = Append(events, "read")
    /\ UNCHANGED <<kind, srcs, tile_size, log, height, width, tile_count,
                   opened,
                   outFile, failedAt, result, svars, ivars, qvars>>

\* dst.write(..., 1, window=window); tile_count += 1
WriteTile ==
    /\ ppc = "computed"
    /\ outFile' = [outFile EXCEPT !.tiles = Append(@, CurWindow)]
    /\ inflight' = {}
    /\ tile_count' = tile_count + 1
    /\ ppc' = "loop"
    /\ events' = Append(events, "write")
    /\ log' = IF (tile_count + 1) % 100 = 0
              THEN Append(log, Record("INFO", "progress"))
              ELSE log
    /\ UNCHANGED <<kind, srcs, tile_size, height, width, opened, failedAt,
                   result, svars, ivars, qvars>>

\* Defective variant: update_tags indented into the loop body.
LoopDone_inside == TRUE

\* The nested for loops are exhausted: update_tags is outside (after) them.
LoopDone == tile_count >= Len(Windows)

\* dst.update_tags(LAYER_TYPE=..., ...) after the loops
UpdateTags ==
    /\ ppc = "loop"
    /\ LoopDone
    /\ \E now \in Clock :
          outFile' = [outFile EXCEPT !.tags = TRUE,
                                     !.generated_at = GENERATED_AT(kind, now)]
    /\ ppc' = "tagged"
    /\ events' = Append(events, "tags")
    /\ UNCHANGED <<kind, srcs, tile_size, log, height, width, tile_count,
                   opened,
                   inflight, failedAt, result, svars, ivars, qvars>>

\* leaving the with blocks: dst, then the inputs, are closed
CloseDatasets ==
    /\ ppc = "tagged"
    /\ opened' = {}
    /\ ppc' = "closed"
    /\ events' = Append(events, "close")
    /\ log' = Append(log, Record("INFO", "Building overviews"))
    /\ UNCHANGED <<kind, srcs, tile_size, height, width, tile_count, inflight,
                   outFile, failedAt, result, svars, ivars, qvars>>

\* with rasterio.open(file_path, "r+") as ds
OpenForOverviews ==
    /\ ppc = "closed"
    /\ opened' = opened \cup {"ds"}
    /\ ppc' = "ovr_open"
    /\ events' = Append(events, "reopen")
    /\ UNCHANGED <<kind, srcs, tile_size, log, height, width, tile_count,
                   inflight,
                   outFile, failedAt, result, svars, ivars, qvars>>

\* build_overviews (cog.py): existing = ds.overviews(1); if existing: return
\* file_path; else ds.build_overviews(factors, resampling), called by the
\* pipelines with the default factors and Resampling.average.
\* generate_uhi_prediction builds without looking at existing levels.
BuildOverviews ==
    /\ ppc = "ovr_open"
    /\ IF TwoInputs /\ outFile.overviews # <<>>
       THEN /\ opened' = opened \ {"ds"}
            /\ ppc' = "built"
            /\ events' = Append(events, "overviews_skipped")
            /\ log' = Append(log, Record("INFO", "Overviews already exist"))
            /\ UNCHANGED outFile
       ELSE /\ outFile' = [outFile EXCEPT !.overviews = OVERVIEW_FACTORS,
                                          !.ovr_method = "average"]
            /\ ppc' = "ovr_built"
            /\ events' = Append(events, "overviews")
            /\ UNCHANGED <<opened, log>>
    /\ UNCHANGED <<kind, srcs, tile_size, height, width, tile_count, inflight,
                   failedAt, result, svars, ivars, qvars>>

\* ds.update_tags(ns="rio_overview", resampling=...)
TagOverviews ==
    /\ ppc = "ovr_built"
    /\ outFile' = [outFile EXCEPT !.ovr_tag = "average"]
    /\ ppc' = "ovr_tagged"
    /\ events' = Append(events, "overview_tag")
    /\ UNCHANGED <<kind, srcs, tile_size, log, height, width, tile_count,
                   opened,
                   inflight, failedAt, result, svars, ivars, qvars>>

\* leaving `with rasterio.open(file_path, "r+") as ds`
CloseOverviews ==
    /\ ppc = "ovr_tagged"
    /\ opened' = opened \ {"ds"}
    /\ ppc' = "built"
    /\ events' = Append(events, "reclose")
    /\ log' = IF TwoInputs
              THEN Append(log, Record("INFO", "Overviews built"))
              ELSE log
    /\ UNCHANGED <<kind, srcs, tile_size, height, width, tile_count, inflight,
                   outFile, failedAt, result, svars, ivars, qvars>>

\* return output_path / return prediction_path
ReturnPath ==
    /\ ppc = "built"
    /\ ppc' = "Done"
    /\ result' = "path"
    /\ events' = Append(events, "return")
    /\ log' = Append(log, Record("INFO", "COG saved"))
    /\ UNCHANGED <<kind, srcs, tile_size, height, width, tile_count, opened,
                   inflight, outFile, failedAt, svars, ivars, qvars>>

\* Defective variant: datasets opened without a with statement.
OpenAfterRaise_leak(handles) == handles

\* What unwinding the with blocks leaves open when a step raises: every
\* context manager's __exit__ runs, so nothing.
OpenAfterRaise(handles) == {}

\* Defective variant: the exception is caught and the step attempted again.
RaiseTarget_retry(p) == p

\* Where a raising step sends the call: the exception propagates out of the
\* function (no except clause, no retry loop in the pipeline functions).
RaiseTarget(p) == "Failed"

\* Defective variant: the output opened for writing before the inputs.
CreatePositions_first == {"start", "inputs_open"}

\* The positions from which the next I/O call is rasterio.open(output_path,
\* 'w'): only after both inputs (the one input of the prediction) are open.
CreatePositions == {"inputs_open"}

\* What a failed rasterio.open(output_path, 'w') may leave at the path: the
\* old file, or nothing (the existing dataset is deleted before the create).
AfterFailedCreate == {outFile, Absent}

\* Any I/O step raises: open, create, read, write, update_tags, close,
\* build_overviews.
Raise ==
    /\ ppc \in CanRaise
    /\ failedAt' = ppc
    /\ ppc' = RaiseTarget(ppc)
    /\ opened' = OpenAfterRaise(opened)
    /\ inflight' = {}
    /\ result' = "error"
    /\ events' = Append(events, "raise")
    /\ IF ppc \in CreatePositions
       THEN outFile' \in AfterFailedCreate
       ELSE UNCHANGED outFile
    /\ UNCHANGED <<kind, srcs, tile_size, log, height, width, tile_count, svars,
                   ivars, qvars>>

PipelineStep ==
    \/ OpenFirst
    \/ OpenNir
    \/ CreateOutput
    \/ ReadFirst
    \/ ReadNir
    \/ WriteTile
    \/ UpdateTags
    \/ CloseDatasets
    \/ OpenForOverviews
    \/ BuildOverviews
    \/ TagOverviews
    \/ CloseOverviews
    \/ ReturnPath
    \/ Raise

\* ----------------------------------------------- specification SpecPipe
\* One call of a pipeline function on inputs, tile size and an output path
\* drawn from the bounded sets; the output path is empty or holds the
\* artifact of an earlier successful call.
Dims == [height : 0..MaxDim, width : 0..MaxDim]

\* No pixel is being computed.
IdlePixel ==
    /\ px_fn = "none"
    /\ px_src = <<>>
    /\ px_pc = "none"
    /\ px_den = 0
    /\ px_val = 0
    /\ px_mask = FALSE
    /\ px_code = -1
    /\ px_out = -1

\* No write profile is being built.
IdleProfile ==
    /\ prof_fn = "none"
    /\ prof_src = <<>>
    /\ prof_dims = <<>>
    /\ prof_pc = "idle"
    /\ profile = <<>>
    /\ prof_dst = <<>>

\* The prediction service is past its startup (or is not the service run).
IdleStartup ==
    /\ st_pc = "serving"
    /\ st_attempt = 0
    /\ st_calls = 0
    /\ st_ok = FALSE
    /\ sub = FALSE

\* No call of translate_path.
IdleTranslate ==
    /\ tp_path = ""
    /\ tp_map = <<>>
    /\ tp_pc = "idle"
    /\ tp_order = <<>>
    /\ tp_warned = FALSE
    /\ tp_result = ""

\* No GeoServer and no call of sync_entity.
IdlePublish ==
    /\ gs_stores = {}
    /\ gs_covs = {}
    /\ gs_accepting = TRUE
    /\ gs_log = <<>>
    /\ se_entity = <<>>
    /\ se_pc = "idle"
    /\ se_result = FALSE
    /\ se_calls = 0
    /\ pl_args = <<>>
    /\ pl_pc = "idle"
    /\ pl_result = FALSE
    /\ pl_prev = {}

\* The sync service has not been started.
IdleSyncStartup ==
    /\ gs_workspace = FALSE
    /\ sy_pc = "idle"
    /\ sy_attempt = 0
    /\ sy_done = <<>>
    /\ sy_first = ""
    /\ sy_ok = FALSE
    /\ sy_sub = {}

\* The GeoServer sync service is not the service run.
IdleSync == IdleTranslate /\ IdlePublish /\ IdleSyncStartup

IdleExtras == IdleProfile

\* No direct call of build_overviews.
IdleCog ==
    /\ cog_file = <<>>
    /\ cog_pc = "idle"
    /\ cog_factors = <<>>
    /\ cog_resampling = ""
    /\ cog_calls = <<>>

IdleService ==
    /\ task = <<>>
    /\ locked = FALSE
    /\ waiters = <<>>
    /\ woken = {}
    /\ owner = 1
    /\ orion = [exists |-> FALSE, filePath |-> "", inputLayers |-> {}]
    /\ hist = <<>>

IdleIngestion ==
    /\ ingestion_status = [running |-> FALSE, progress |-> "", layers_created |-> {}]
    /\ ireq = <<>>
    /\ irun = <<>>
    /\ iorion = {}

InitPipe ==
    /\ kind \in {"ndvi", "ndwi", "uhi"}
    /\ IF kind = "uhi"
       THEN srcs \in [{"src"} -> Dims]
       ELSE srcs \in [{"rgb", "nir"} -> Dims]
    /\ tile_size \in 1..MaxTile
    /\ ppc = "start"
    /\ height = 0
    /\ width = 0
    /\ tile_count = 0
    /\ opened = {}
    /\ inflight = {}
    /\ outFile \in {Absent, Finished(kind, MaxDim, MaxDim, tile_size)}
    /\ events = <<>>
    /\ failedAt = "none"
    /\ result = "none"
    /\ log = EntryLog(kind)
    /\ IdleService
    /\ IdleIngestion
    /\ IdlePixel
    /\ IdleCog
    /\ IdleExtras
    /\ IdleStartup
    /\ IdleSync

NextPipe == PipelineStep

SpecPipe == InitPipe /\ [][NextPipe]_vars

\* ================================================= claims on SpecPipe
Terminal == {"Done", "Failed"}

InBounds(win, h, w) ==
    /\ 0 <= win.col_off
    /\ win.col_off + win.width <= w
    /\ 0 <= win.row_off
    /\ win.row_off + win.height <= h

Covers(win, x, y) ==
    /\ win.col_off <= x
    /\ x < win.col_off + win.width
    /\ win.row_off <= y
    /\ y < win.row_off + win.height

CoverCount(wins, x, y) ==
    Cardinality({i \in DOMAIN wins : Covers(wins[i], x, y)})

Partitions(wins, h, w) ==
    /\ \A i \in DOMAIN wins : InBounds(wins[i], h, w)
    /\ \A x \in 0..(w - 1), y \in 0..(h - 1) : CoverCount(wins, x, y) = 1

\* The call has computed height and width.
Sized == ppc \notin {"start", "opened1"} /\ failedAt \notin {"start", "opened1"}

\* The call has left its tile loops normally.
LoopLeft == \E i \in DOMAIN events : events[i] = "tags"

\* C1: for every height, width >= 0 and tile size > 0 the windows the tile
\* loops of the three pipelines generate partition [0,W) x [0,H): every
\* window lies inside the raster and every pixel lies in exactly one window;
\* the windows written while the loops run never overlap, and when the loops
\* are left the windows written are that partition.
C1_TilePartition ==
    Sized =>
        /\ Partitions(Windows, height, width)
        /\ (outFile.exists /\ outFile.gen = owner) =>
              /\ \A i \in DOMAIN outFile.tiles :
                    InBounds(outFile.tiles[i], height, width)
              /\ \A x \in 0..(width - 1), y \in 0..(height - 1) :
                    CoverCount(outFile.tiles, x, y) <= 1
        /\ LoopLeft => Partitions(outFile.tiles, height, width)

\* A finished run whose raster is not a multiple of the tile size in either
\* direction: four windows, three of them clipped.
C1_Witness ==
    /\ ppc = "Done"
    /\ height = 3
    /\ width = 3
    /\ tile_size = 2
    /\ Len(outFile.tiles) = 4

\* The place of each I/O step in the order the pipeline functions fix.
Rank(e) ==
    CASE e = "open_input"   -> 1
      [] e = "create"       -> 2
      [] e = "read"         -> 3
      [] e = "write"        -> 3
      [] e = "tags"         -> 4
      [] e = "close"        -> 5
      [] e = "reopen"       -> 6
      [] e = "overviews"    -> 7
      [] e = "overviews_skipped" -> 7
      [] e = "overview_tag" -> 8
      [] e = "reclose"      -> 9
      [] e = "return"       -> 10
      [] OTHER              -> 11

Count(e) == Cardinality({i \in DOMAIN events : events[i] = e})

Happened(e) == Count(e) > 0

StepOrder ==
    /\ \A i, j \in DOMAIN events :
          i < j => /\ Rank(events[i]) <= Rank(events[j])
                   /\ (Rank(events[i]) = Rank(events[j])
                         => events[i] \in {"open_input", "read", "write"})
    /\ Happened("tags") =>
          /\ Count("write") = Len(Windows)
          /\ outFile.tiles = Windows
    /\ Happened("overviews") => Happened("tags") /\ Happened("close")
    /\ ppc = "Done" <=> Happened("return")
    /\ ppc = "Done" =>
          /\ Count("open_input") = (IF TwoInputs THEN 2 ELSE 1)
          /\ Count("create") = 1
          /\ Count("tags") = 1
          /\ Count("close") = 1
          /\ Count("overviews") = 1
          /\ result = "path"
    /\ ppc = "Failed" <=> Happened("raise")
    /\ ppc \in CanRaise => ENABLED Raise

\* C5: in every run the steps occur in the order inputs opened, output
\* created, tile writes, tags written, output closed, overviews built, path
\* returned; tags come after the last tile write, overviews after the tags,
\* the return after the overviews; a failure is possible at every step that
\* performs I/O, and nothing of the call happens after Done or Failed.
C5_StepOrder == []StepOrder /\ [][ppc \notin Terminal]_pvars

\* A successful run of the two-input pipeline that wrote several tiles.
C5_Witness ==
    /\ ppc = "Done"
    /\ kind = "ndwi"
    /\ Count("write") = 4
    /\ outFile.overviews = OVERVIEW_FACTORS

\* The positions at which an input open, the output create or a tile read or
\* write is the next step.
EarlySteps == {"start", "opened1", "inputs_open", "loop", "read1", "computed"}

\* C8: if opening an input, creating the output or a tile read or write
\* raises, the call ends in failure propagated to its caller: it is Failed
\* with result "error", the raise is the last thing it did and happened once
\* (no retry), and it wrote no tags, built no overviews and returned no path.
C8_FailurePropagates ==
    failedAt \in EarlySteps =>
        /\ ppc = "Failed"
        /\ result = "error"
        /\ events[Len(events)] = "raise"
        /\ Count("raise") = 1
        /\ ~Happened("tags")
        /\ ~Happened("overviews")
        /\ ~Happened("overview_tag")
        /\ ~Happened("return")
        /\ Count("write") = tile_count
        /\ Count("create") <= 1

\* A tile write that raised after an earlier tile had been written.
C8_Witness ==
    /\ failedAt = "computed"
    /\ tile_count = 1
    /\ ppc = "Failed"
    /\ kind = "uhi"

\* The handles each position of the call holds open.
ExpectedOpen ==
    CASE ppc \in {"start", "closed", "built"} \cup Terminal -> {}
      [] ppc = "opened1" -> {"rgb_src"}
      [] ppc = "inputs_open" ->
            (IF TwoInputs THEN {"rgb_src", "nir_src"} ELSE {"src"})
      [] ppc \in {"loop", "read1", "computed", "tagged"} ->
            (IF TwoInputs THEN {"rgb_src", "nir_src", "dst"} ELSE {"src", "dst"})
      [] OTHER -> {"ds"}

\* C9: every dataset a run opens (the inputs, the output in write mode, the
\* output reopened for the overviews) is closed when the run ends, by
\* success or by failure: in Done and Failed no handle is open (and before
\* that exactly the handles of the enclosing with blocks are).
C9_AllClosed ==
    /\ opened = ExpectedOpen
    /\ ppc \in Terminal => opened = {}

\* A run that failed in a tile write, with both inputs and the output open.
C9_Witness ==
    /\ ppc = "Failed"
    /\ failedAt = "computed"
    /\ kind = "ndvi"
    /\ opened = {}

RowMajorBefore(a, b) ==
    \/ a.row_off < b.row_off
    \/ a.row_off = b.row_off /\ a.col_off < b.col_off

\* C10: the tile loop is sequential and row-major: the windows written so
\* far are in increasing (row_off, col_off) order, every block read and not
\* yet written belongs to the one window being processed, which comes after
\* every window written, and reads and writes alternate window by window.
C10_SequentialRowMajor ==
    (Sized /\ outFile.exists /\ outFile.gen = owner) =>
        /\ \A i, j \in DOMAIN outFile.tiles :
              i < j => RowMajorBefore(outFile.tiles[i], outFile.tiles[j])
        /\ \A b \in inflight :
              /\ b.window = CurWindow
              /\ \A i \in DOMAIN outFile.tiles :
                    RowMajorBefore(outFile.tiles[i], b.window)
        /\ Cardinality({b.window : b \in inflight}) <= 1
        /\ ppc = "loop" => inflight = {}
        /\ failedAt = "none" =>
              Count("read") - Count("write") * (IF TwoInputs THEN 2 ELSE 1)
                 = Cardinality(inflight)
        /\ Len(outFile.tiles) = tile_count

\* Both bands of the last window of a 2 x 2 grid are in flight, the first
\* three windows written.
C10_Witness ==
    /\ kind = "ndvi"
    /\ ppc = "computed"
    /\ tile_count = 3
    /\ Cardinality(inflight) = 2
    /\ Len(Windows) = 4

\* ======================================================================
\* Prediction service (services/prediction/main.py)
\* ======================================================================
Reqs == DOMAIN task

\* The positions inside the body of _run_prediction (under the lock).
BodyPcs ==
    {"resolve_ndvi", "resolve_ndwi", "generating", "register_post",
     "register_patch"}

\* The event loop runs one callback at a time; generate_uhi_prediction holds
\* no await, so the loop is blocked while it runs.
LoopFree == ppc = "idle"

\* The path generate_uhi_prediction writes and register_prediction_entity
\* registers: OUTPUT_PATH / "uhi_prediction_brussels_2024.tif"
PredictionPath == "uhi_prediction_brussels_2024.tif"

\* What Orion may answer to GET /entities/{id}, followed by extract_file_path.
Replies ==
    {"ok", "connect_error", "timeout", "not_found", "orion_error",
     "no_filePath", "file_missing"}

\* The HTTPException status get_entity_from_orion / extract_file_path raise.
StatusOf(reply) ==
    CASE reply = "connect_error" -> "503"
      [] reply = "timeout"       -> "504"
      [] reply = "not_found"     -> "404"
      [] reply = "orion_error"   -> "502"
      [] reply = "no_filePath"   -> "502"
      [] reply = "file_missing"  -> "404"
      [] OTHER                   -> "200"

\* Defective variant: predict() without its locked() test.
SkipTrigger_never(ep) == FALSE

\* predict(): if _prediction_lock.locked(): return status "skipped".
\* predict_manual() has no such check.
SkipTrigger(ep) == ep = "predict" /\ locked

\* Defective variant: the body of _run_prediction not under the lock.
MustWait_unguarded == FALSE

\* asyncio.Lock.acquire() under `async with _prediction_lock`: the caller
\* takes the lock at once only if it is free and nobody is queued.
MustWait == locked \/ waiters # <<>>

\* Defective variant: the lock taken with acquire() and no release on the way
\* out.
Release_never == UNCHANGED <<locked, woken, waiters>>

\* asyncio.Lock.release(): unlock and complete the first waiter's future.
Release ==
    /\ locked' = FALSE
    /\ woken' = IF waiters # <<>> THEN woken \cup {Head(waiters)} ELSE woken
    /\ UNCHANGED waiters

\* The pipeline variables while no pipeline call is active.
PipelineIdle ==
    /\ kind' = "none"
    /\ srcs' = <<>>
    /\ tile_size' = 0
    /\ ppc' = "idle"
    /\ height' = 0
    /\ width' = 0
    /\ tile_count' = 0
    /\ opened' = {}
    /\ inflight' = {}
    /\ events' = <<>>
    /\ failedAt' = "none"
    /\ result' = "none"
    /\ log' = <<>>

\* A request handler starts: predict() or predict_manual(), up to the first
\* await that suspends (the lock's future, or the GET of the NDVI entity).
Trigger(r, ep) ==
    /\ LoopFree
    /\ task[r].pc = "new"
    /\ \A q \in Reqs : q < r => task[q].pc # "new"   \* requests numbered by arrival
    /\ hist' = [hist EXCEPT ![r].lockedAtArrival = locked,
                            ![r].waited = ~SkipTrigger(ep) /\ MustWait]
    /\ IF SkipTrigger(ep)
       THEN /\ task' = [task EXCEPT ![r] = [ep |-> ep, pc |-> "done",
                                            resp |-> "skipped"]]
            /\ UNCHANGED <<locked, waiters>>
       ELSE IF MustWait
       THEN /\ task' = [task EXCEPT ![r] = [ep |-> ep, pc |-> "waiting",
                                            resp |-> "none"]]
            /\ waiters' = Append(waiters, r)
            /\ UNCHANGED locked
       ELSE /\ task' = [task EXCEPT ![r] = [ep |-> ep, pc |-> "resolve_ndvi",
                                            resp |-> "none"]]
            /\ locked' = TRUE
            /\ UNCHANGED waiters
    /\ UNCHANGED <<woken, owner, orion, pvars, ivars, qvars>>

\* A queued caller's future was completed by release(): it leaves the queue
\* and takes the lock (the tail of asyncio.Lock.acquire()).
Wake(r) ==
    /\ LoopFree
    /\ task[r].pc = "waiting"
    /\ r \in woken
    /\ waiters' = SelectSeq(waiters, LAMBDA x : x # r)
    /\ woken' = woken \ {r}
    /\ locked' = TRUE
    /\ task' = [task EXCEPT ![r].pc = "resolve_ndvi"]
    /\ UNCHANGED <<owner, orion, hist, pvars, ivars, qvars>>

\* Defective variant: extract_file_path without its path.exists() test.
ndvi_resolved_unchecked(reply) == reply \in {"ok", "file_missing"}

\* ndvi_path is returned (no HTTPException): Orion answered 200 for the
\* entity, the entity has a filePath value and the path exists on disk.
ndvi_resolved(reply) == reply = "ok"

\* resolve_input_layers, NDVI (required): get_entity_from_orion(NDVI_ENTITY_ID)
\* and extract_file_path; an HTTPException leaves _run_prediction through
\* the async with, releasing the lock.
ResolveNdvi(r, reply) ==
    /\ LoopFree
    /\ task[r].pc = "resolve_ndvi"
    /\ IF ndvi_resolved(reply)
       THEN /\ task' = [task EXCEPT ![r].pc = "resolve_ndwi"]
            /\ hist' = [hist EXCEPT ![r].ndvi = TRUE, ![r].ndviReply = reply]
            /\ UNCHANGED <<locked, woken, waiters>>
       ELSE /\ task' = [task EXCEPT ![r].pc = "done", ![r].resp = StatusOf(reply)]
            /\ Release
            /\ hist' = [hist EXCEPT ![r].ndviReply = reply]
    /\ UNCHANGED <<owner, orion, pvars, ivars, qvars>>

\* resolve_input_layers, NDWI (optional: an HTTPException is logged), then
\* generate_uhi_prediction(ndvi_path) is entered.
ResolveNdwi(r, reply) ==
    /\ LoopFree
    /\ task[r].pc = "resolve_ndwi"
    /\ task' = [task EXCEPT ![r].pc = "generating"]
    /\ hist' = [hist EXCEPT ![r].ndwi = (reply = "ok"), ![r].genStarted = TRUE]
    /\ owner' = r
    /\ kind' = "uhi"
    /\ srcs' = [n \in {"src"} |-> [height |-> 1, width |-> SvcWidth]]
    /\ tile_size' = TILE_SIZE
    /\ ppc' = "start"
    /\ events' = <<>>
    /\ failedAt' = "none"
    /\ result' = "none"
    /\ log' = EntryLog("uhi")
    /\ UNCHANGED <<height, width, tile_count, opened, inflight, outFile,
                   locked, waiters, woken, orion, ivars, qvars>>

\* generate_uhi_prediction returned: register_prediction_entity starts (the
\* bounding box is read from the finished file) and awaits the POST.
GenReturned(r) ==
    /\ task[r].pc = "generating"
    /\ owner = r
    /\ ppc = "Done"
    /\ task' = [task EXCEPT ![r].pc = "register_post"]
    /\ hist' = [hist EXCEPT ![r].genDone = TRUE]
    /\ PipelineIdle
    /\ UNCHANGED <<outFile, locked, waiters, woken, owner, orion, ivars, qvars>>

\* Defective variant: the exception is swallowed and registration goes on.
AfterGenerateRaises_swallowed == "register_post"

\* Where _run_prediction goes when generate_uhi_prediction raises: there is
\* no try around it, the exception leaves the handler (response 500).
AfterGenerateRaises == "done"

GenRaised(r) ==
    /\ task[r].pc = "generating"
    /\ owner = r
    /\ ppc = "Failed"
    /\ hist' = [hist EXCEPT ![r].genFailed = TRUE]
    /\ PipelineIdle
    /\ IF AfterGenerateRaises = "done"
       THEN /\ task' = [task EXCEPT ![r].pc = "done", ![r].resp = "500"]
            /\ Release
       ELSE /\ task' = [task EXCEPT ![r].pc = AfterGenerateRaises]
            /\ UNCHANGED <<locked, waiters, woken>>
    /\ UNCHANGED <<outFile, owner, orion, ivars, qvars>>

\* Defective variant: both input layers always listed.
EntityOf_both(r) ==
    [exists |-> TRUE, filePath |-> PredictionPath,
     inputLayers |-> {"NDVI", "NDWI"}]

\* The entity register_prediction_entity sends for request r.
EntityOf(r) ==
    [exists |-> TRUE, filePath |-> PredictionPath,
     inputLayers |-> {"NDVI"} \cup (IF hist[r].ndwi THEN {"NDWI"} ELSE {})]

\* register_prediction_entity: POST /entities answered. 201: created;
\* 409: PATCH follows; anything else (or an exception) is logged. Except
\* after 409 the function returns and _run_prediction answers "success".
RegisterPost(r, fails) ==
    /\ LoopFree
    /\ task[r].pc = "register_post"
    /\ hist' = [hist EXCEPT ![r].regRequests = @ + 1]
    /\ IF ~fails /\ orion.exists
       THEN /\ task' = [task EXCEPT ![r].pc = "register_patch"]
            /\ UNCHANGED <<orion, locked, waiters, woken>>
       ELSE /\ orion' = IF fails THEN orion ELSE EntityOf(r)
            /\ task' = [task EXCEPT ![r].pc = "done", ![r].resp = "success"]
            /\ Release
    /\ UNCHANGED <<owner, pvars, ivars, qvars>>

\* register_prediction_entity: PATCH /entities/{id}/attrs answered (200/204
\* updates the entity, anything else is logged); "success" is returned.
RegisterPatch(r, fails) ==
    /\ LoopFree
    /\ task[r].pc = "register_patch"
    /\ hist' = [hist EXCEPT ![r].regRequests = @ + 1]
    /\ orion' = IF fails THEN orion ELSE EntityOf(r)
    /\ task' = [task EXCEPT ![r].pc = "done", ![r].resp = "success"]
    /\ Release
    /\ UNCHANGED <<owner, pvars, ivars, qvars>>

\* generate_uhi_prediction runs on the event loop's thread.
Generate ==
    /\ kind = "uhi"
    /\ owner \in Reqs
    /\ PipelineStep

PredictionStep ==
    \/ \E r \in Reqs, ep \in {"predict", "manual"} : Trigger(r, ep)
    \/ \E r \in Reqs : Wake(r)
    \/ \E r \in Reqs, reply \in Replies : ResolveNdvi(r, reply)
    \/ \E r \in Reqs, reply \in Replies : ResolveNdwi(r, reply)
    \/ Generate
    \/ \E r \in Reqs : GenReturned(r)
    \/ \E r \in Reqs : GenRaised(r)
    \/ \E r \in Reqs, fails \in BOOLEAN : RegisterPost(r, fails)
    \/ \E r \in Reqs, fails \in BOOLEAN : RegisterPatch(r, fails)

NoPipeline ==
    /\ kind = "none"
    /\ srcs = <<>>
    /\ tile_size = 0
    /\ ppc = "idle"
    /\ height = 0
    /\ width = 0
    /\ tile_count = 0
    /\ opened = {}
    /\ inflight = {}
    /\ outFile = Absent
    /\ events = <<>>
    /\ failedAt = "none"
    /\ result = "none"
    /\ log = <<>>

\* The prediction service's module state: the lock free, no request yet.
ModuleLoaded ==
    /\ NoPipeline
    /\ task = [r \in 1..MaxReq |-> [ep |-> "none", pc |-> "new", resp |-> "none"]]
    /\ locked = FALSE
    /\ waiters = <<>>
    /\ woken = {}
    /\ owner = 0
    /\ orion = [exists |-> FALSE, filePath |-> "", inputLayers |-> {}]
    /\ hist = [r \in 1..MaxReq |->
                 [lockedAtArrival |-> FALSE, waited |-> FALSE, ndvi |-> FALSE,
                  ndwi |-> FALSE, genStarted |-> FALSE, genDone |-> FALSE,
                  genFailed |-> FALSE, regRequests |-> 0,
                  ndviReply |-> "none"]]
    /\ IdleIngestion
    /\ IdlePixel
    /\ IdleCog
    /\ IdleExtras

InitPrediction ==
    /\ ModuleLoaded
    /\ IdleStartup
    /\ IdleSync

SpecPrediction == InitPrediction /\ [][PredictionStep]_vars

\* ======================================================================
\* Ingestion service (services/ingestion/main.py)
\* ======================================================================
IReqs == DOMAIN ireq

\* The positions of run_ingestion_pipeline between its first and last line.
PipelinePcs ==
    {"download_rgb", "download_nir", "ovr_rgb", "ovr_nir", "ndvi", "ndwi",
     "reg_RGB", "reg_NIR", "reg_NDVI", "reg_NDWI"}

\* layers_to_register, in order, as the position that registers each.
RegPc(layer) ==
    CASE layer = "RGB"  -> "reg_RGB"
      [] layer = "NIR"  -> "reg_NIR"
      [] layer = "NDVI" -> "reg_NDVI"
      [] OTHER          -> "reg_NDWI"

NextLayer(layer) ==
    CASE layer = "RGB"  -> "NIR"
      [] layer = "NIR"  -> "NDVI"
      [] layer = "NDVI" -> "NDWI"
      [] OTHER          -> "none"

\* POST /ingest/orthophotos: 409 while ingestion_status["running"], 400
\* without both URLs, else background_tasks.add_task(run_ingestion_pipeline).
ingest_orthophotos(q, has_urls) ==
    /\ ireq[q].pc = "new"
    /\ \A o \in IReqs : o < q => ireq[o].pc # "new"   \* requests numbered by arrival
    /\ ireq' = [ireq EXCEPT ![q] =
                  IF ingestion_status.running
                  THEN [pc |-> "done", resp |-> "409"]
                  ELSE IF ~has_urls
                  THEN [pc |-> "done", resp |-> "400"]
                  ELSE [pc |-> "scheduled", resp |-> "started"]]
    /\ UNCHANGED <<ingestion_status, irun, iorion, pvars, svars, qvars>>

\* The background task starts after the response was sent:
\* run_ingestion_pipeline replaces ingestion_status (running: True) and
\* awaits the first download.
BackgroundStart(q) ==
    /\ ireq[q].pc = "scheduled"
    /\ ingestion_status' = [running |-> TRUE,
                            progress |-> "Downloading RGB orthophoto...",
                            layers_created |-> {}]
    /\ ireq' = [ireq EXCEPT ![q].pc = "download_rgb"]
    /\ UNCHANGED <<irun, iorion, pvars, svars, qvars>>

\* except Exception: progress = "Error: ..."; finally: running = False
PipelineFailed(q) ==
    /\ ingestion_status' = [ingestion_status EXCEPT !.running = FALSE,
                                                    !.progress = "Error"]
    /\ ireq' = [ireq EXCEPT ![q].pc = "done"]

\* rgb_path = await download_and_extract(rgb_url, "rgb")  (None on failure)
DownloadRgb(q, ok) ==
    /\ ireq[q].pc = "download_rgb"
    /\ irun' = [irun EXCEPT ![q].rgb_path = ok]
    /\ ireq' = [ireq EXCEPT ![q].pc = "download_nir"]
    /\ ingestion_status' = [ingestion_status EXCEPT
                              !.progress = "Downloading NIR orthophoto..."]
    /\ UNCHANGED <<iorion, pvars, svars, qvars>>

\* nir_path = await download_and_extract(nir_url, "nir");
\* if not rgb_path or not nir_path: raise Exception
DownloadNir(q, ok) ==
    /\ ireq[q].pc = "download_nir"
    /\ IF irun[q].rgb_path /\ ok
       THEN /\ ireq' = [ireq EXCEPT ![q].pc = "ovr_rgb"]
            /\ ingestion_status' = [ingestion_status EXCEPT
                                      !.progress = "Building RGB overviews"]
       ELSE PipelineFailed(q)
    /\ UNCHANGED <<irun, iorion, pvars, svars, qvars>>

\* await asyncio.to_thread(build_overviews, rgb) / (build_overviews, nir);
\* after the second, calculate_ndvi is handed to a thread.
InputOverviews(q, ok) ==
    /\ ireq[q].pc \in {"ovr_rgb", "ovr_nir"}
    /\ IF ~ok
       THEN PipelineFailed(q) /\ UNCHANGED irun
       ELSE IF ireq[q].pc = "ovr_rgb"
       THEN /\ ireq' = [ireq EXCEPT ![q].pc = "ovr_nir"]
            /\ ingestion_status' = [ingestion_status EXCEPT
                                      !.progress = "Building NIR overviews"]
            /\ UNCHANGED irun
       ELSE /\ ireq' = [ireq EXCEPT ![q].pc = "ndvi"]
            /\ ingestion_status' = [ingestion_status EXCEPT
                                      !.progress = "Calculating NDVI"]
            /\ irun' = [irun EXCEPT ![q].ndvi = "running"]
    /\ UNCHANGED <<iorion, pvars, svars, qvars>>

\* await asyncio.to_thread(calculate_ndvi, ...) ends: returns or raises;
\* on return calculate_ndwi is handed to a thread.
CalcNdvi(q, ok) ==
    /\ ireq[q].pc = "ndvi"
    /\ IF ok
       THEN /\ irun' = [irun EXCEPT ![q].ndvi = "Done", ![q].ndwi = "running"]
            /\ ireq' = [ireq EXCEPT ![q].pc = "ndwi"]
            /\ ingestion_status' = [ingestion_status EXCEPT
                                      !.progress = "Calculating NDWI"]
       ELSE /\ irun' = [irun EXCEPT ![q].ndvi = "Failed"]
            /\ PipelineFailed(q)
    /\ UNCHANGED <<iorion, pvars, svars, qvars>>

\* await asyncio.to_thread(calculate_ndwi, ...) ends: returns or raises.
CalcNdwi(q, ok) ==
    /\ ireq[q].pc = "ndwi"
    /\ IF ok
       THEN /\ irun' = [irun EXCEPT ![q].ndwi = "Done"]
            /\ ireq' = [ireq EXCEPT ![q].pc = "reg_RGB"]
            /\ ingestion_status' = [ingestion_status EXCEPT
                                      !.progress = "Registering layers in Orion..."]
       ELSE /\ irun' = [irun EXCEPT ![q].ndwi = "Failed"]
            /\ PipelineFailed(q)
    /\ UNCHANGED <<iorion, pvars, svars, qvars>>

\* for layer in layers_to_register: await create_or_update_layer(layer)
\* (which returns False instead of raising when Orion refuses), then
\* layers_created.append(layer.layer_type); after the last layer
\* progress = "Ingestion complete!" and finally running = False.
\* layers_created is kept as the set of the list's elements.
RegisterLayer(q, layer, accepted) ==
    /\ ireq[q].pc = RegPc(layer)
    /\ irun' = [irun EXCEPT ![q].regs = @ \cup {layer}]
    /\ iorion' = IF accepted THEN iorion \cup {layer} ELSE iorion
    /\ ireq' = [ireq EXCEPT ![q].pc =
                  IF NextLayer(layer) = "none" THEN "done"
                  ELSE RegPc(NextLayer(layer))]
    /\ ingestion_status' =
          [ingestion_status EXCEPT
             !.layers_created = @ \cup {layer},
             !.progress = IF NextLayer(layer) = "none"
                          THEN "Ingestion complete!" ELSE @,
             !.running = IF NextLayer(layer) = "none" THEN FALSE ELSE @]
    /\ UNCHANGED <<pvars, svars, qvars>>

IngestionStep ==
    \/ \E q \in IReqs, has_urls \in BOOLEAN : ingest_orthophotos(q, has_urls)
    \/ \E q \in IReqs : BackgroundStart(q)
    \/ \E q \in IReqs, ok \in BOOLEAN : DownloadRgb(q, ok)
    \/ \E q \in IReqs, ok \in BOOLEAN : DownloadNir(q, ok)
    \/ \E q \in IReqs, ok \in BOOLEAN : InputOverviews(q, ok)
    \/ \E q \in IReqs, ok \in BOOLEAN : CalcNdvi(q, ok)
    \/ \E q \in IReqs, ok \in BOOLEAN : CalcNdwi(q, ok)
    \/ \E q \in IReqs, layer \in {"RGB", "NIR", "NDVI", "NDWI"},
          accepted \in BOOLEAN : RegisterLayer(q, layer, accepted)

InitIngestion ==
    /\ NoPipeline
    /\ IdleService
    /\ ingestion_status = [running |-> FALSE, progress |-> "", layers_created |-> {}]
    /\ ireq = [q \in 1..MaxIngest |-> [pc |-> "new", resp |-> "none"]]
    /\ irun = [q \in 1..MaxIngest |->
                 [rgb_path |-> FALSE, ndvi |-> "none", ndwi |-> "none",
                  regs |-> {}]]
    /\ iorion = {}
    /\ IdlePixel
    /\ IdleCog
    /\ IdleExtras
    /\ IdleStartup
    /\ IdleSync

SpecIngestion == InitIngestion /\ [][IngestionStep]_vars

\* Both services, one of them receiving requests.
SpecServices ==
    /\ InitPrediction \/ InitIngestion
    /\ [][PredictionStep \/ IngestionStep]_vars

\* ================================================ claims on the services
InBody == {r \in Reqs : task[r].pc \in BodyPcs}

\* C2: at most one prediction run executes at any time: over every
\* interleaving of /predict and /predict/manual requests at most one request
\* is inside the body of _run_prediction (resolving inputs, generating the
\* raster, registering the entity), and that request holds the lock.
C2_OnePredictionRun ==
    /\ Cardinality(InBody) <= 1
    /\ InBody # {} => locked

\* One request is inside the body while another one waits for the lock.
C2_Witness ==
    \E r, q \in Reqs :
        /\ task[r].pc = "generating"
        /\ ppc = "computed"
        /\ task[q].pc = "waiting"

Arrived(r) == task[r].pc # "new"

Accepted == {q \in IReqs : ireq[q].pc \in {"scheduled"} \cup PipelinePcs}

\* C4: at most one ingestion pipeline executes at any time: a request
\* received after another was accepted and before that one's
\* run_ingestion_pipeline finished is rejected with 409, so that at most one
\* accepted request is scheduled or running.
C4_OneIngestion == Cardinality(Accepted) <= 1

\* C6: in both orchestrations the Orion entity of an output raster is sent
\* for registration only after the pipeline that produces the raster reached
\* Done in the same run, and never when that pipeline failed.
C6_RegisterAfterDone ==
    /\ \A r \in Reqs :
          /\ hist[r].regRequests > 0 => hist[r].genDone
          /\ task[r].pc \in {"register_post", "register_patch"} => hist[r].genDone
          /\ hist[r].genFailed => hist[r].regRequests = 0 /\ ~hist[r].genDone
    /\ \A q \in IReqs :
          /\ "NDVI" \in irun[q].regs => irun[q].ndvi = "Done"
          /\ "NDWI" \in irun[q].regs => irun[q].ndwi = "Done"
          /\ ireq[q].pc \in {"reg_RGB", "reg_NIR", "reg_NDVI", "reg_NDWI"} =>
                irun[q].ndvi = "Done" /\ irun[q].ndwi = "Done"

\* A prediction run registered its raster after generating it.
C6_Witness ==
    \E r \in Reqs :
        /\ hist[r].regRequests = 1
        /\ hist[r].genDone
        /\ orion.exists
        /\ outFile.overviews = OVERVIEW_FACTORS

\* The file at PredictionPath is a completed artifact: all tiles, the tags
\* and the overviews with their tag are written and no call has it open for
\* writing.
Completed ==
    /\ outFile.exists
    /\ opened \cap {"dst", "ds"} = {}
    /\ outFile.tiles = uhi_windows(outFile.height, outFile.width, TILE_SIZE)
    /\ outFile.tags
    /\ outFile.overviews = OVERVIEW_FACTORS
    /\ outFile.ovr_tag = "average"

\* C7: at every moment a path that is registered in Orion as filePath of
\* the UHIHeatMap entity refers to a completed artifact: no run is writing
\* tiles, tags or overviews to the file while its path is exposed.
C7_ExposedIsComplete ==
    (orion.exists /\ orion.filePath = PredictionPath) => Completed

\* ======================================================================
\* numpy float32 arithmetic, as the loop bodies use it
\* ======================================================================
\* A finite float32 is [m, e], the value m * 2^e with 2^23 <= |m| < 2^24,
\* or m = 0 (then e = 0). Every operation rounds its exact result to the
\* nearest float32, ties to even.
Abs(n) == IF n < 0 THEN -n ELSE n

Sign(n) == IF n < 0 THEN -1 ELSE 1

RECURSIVE BitLen(_)
BitLen(n) == IF n = 0 THEN 0 ELSE 1 + BitLen(n \div 2)

\* The float32 nearest to n * 2^e.
F32Round(n, e) ==
    IF n = 0 THEN [m |-> 0, e |-> 0]
    ELSE LET a == Abs(n)
             k == BitLen(a) - 24
         IN  IF k <= 0
             THEN [m |-> Sign(n) * a * 2^(-k), e |-> e + k]
             ELSE LET q == a \div 2^k
                      r == a % 2^k
                      half == 2^(k - 1)
                      q1 == IF r > half \/ (r = half /\ q % 2 = 1)
                            THEN q + 1 ELSE q
                  IN  IF q1 = 2^24
                      THEN [m |-> Sign(n) * 2^23, e |-> e + k + 1]
                      ELSE [m |-> Sign(n) * q1, e |-> e + k]

\* n.astype(np.float32) of an integer sample; a Python int operand.
F32(n) == F32Round(n, 0)

Zero == F32(0)

One == F32(1)

F32Neg(x) == [m |-> -x.m, e |-> x.e]

\* x + y: the smaller operand is aligned with three guard bits, the bits
\* shifted out kept as a sticky bit.
F32Add(x, y) ==
    IF x.m = 0 THEN y
    ELSE IF y.m = 0 THEN x
    ELSE LET big == IF x.e >= y.e THEN x ELSE y
             small == IF x.e >= y.e THEN y ELSE x
             d == big.e - small.e
             s8 == Abs(small.m) * 8
             q == IF d > 27 THEN 0 ELSE s8 \div 2^d
             sticky == IF d > 27 THEN TRUE ELSE s8 % 2^d # 0
             t == IF sticky /\ q % 2 = 0 THEN q + 1 ELSE q
         IN  F32Round(big.m * 8 + Sign(small.m) * t, big.e - 3)

\* x - y
F32Sub(x, y) == F32Add(x, F32Neg(y))

\* Long division: the quotient q + r/d doubled until q has 26 bits.
RECURSIVE DivBits(_, _, _, _)
DivBits(q, r, d, k) ==
    IF q >= 2^25 THEN <<q, r, k>>
    ELSE DivBits(2 * q + (IF 2 * r >= d THEN 1 ELSE 0),
                 IF 2 * r >= d THEN 2 * r - d ELSE 2 * r, d, k + 1)

\* x / y for y # 0
F32Div(x, y) ==
    IF x.m = 0 THEN x
    ELSE LET a == Abs(x.m)
             b == Abs(y.m)
             res == DivBits(a \div b, a % b, b, 0)
             n == 2 * res[1] + (IF res[2] # 0 THEN 1 ELSE 0)
         IN  F32Round(Sign(x.m) * Sign(y.m) * n, x.e - y.e - res[3] - 1)

\* x * 254
F32Mul254(x) == F32Round(x.m * 127, x.e + 1)

\* x * 2
F32Mul2(x) == IF x.m = 0 THEN x ELSE [x EXCEPT !.e = @ + 1]

\* x / 2
F32Half(x) == IF x.m = 0 THEN x ELSE [x EXCEPT !.e = @ - 1]

\* x < y
F32Less(x, y) == F32Sub(x, y).m < 0

\* The integer part of x (towards zero).
F32Trunc(x) ==
    IF x.e >= 0 THEN x.m * 2^x.e
    ELSE IF -x.e > 30 THEN 0
    ELSE Sign(x.m) * (Abs(x.m) \div 2^(-x.e))

\* Defective variant: no clip before the conversion.
np_clip_none(x, lo, hi) == x

\* np.clip(x, lo, hi)
np_clip(x, lo, hi) ==
    IF F32Less(x, lo) THEN lo ELSE IF F32Less(hi, x) THEN hi ELSE x

\* x.astype(np.uint8): the fraction is dropped (no rounding); a value
\* whose integer part is outside 0..255 has no defined result.
astype_uint8(x) ==
    IF x.m = 0 THEN {0}
    ELSE IF x.e < 0 /\ F32Trunc(x) \in 0..255 THEN {F32Trunc(x)} ELSE 0..255

\* ======================================================================
\* The loop bodies, for one pixel of the window
\* ======================================================================
\* denominator = nir + red                                   (ndvi.py:97)
ndvi_denominator(red, nir) == F32Add(nir, red)

\* Defective variant: zero denominators filled with the lower end of the range.
ndvi_where_fill(red, nir, denominator) ==
    IF denominator.m # 0
    THEN F32Div(F32Sub(nir, red), denominator)
    ELSE F32(-1)

\* np.where(denominator != 0, (nir - red) / denominator, 0)  (ndvi.py:98-102)
ndvi_where(red, nir, denominator) ==
    IF denominator.m # 0
    THEN F32Div(F32Sub(nir, red), denominator)
    ELSE Zero

\* denominator = green + nir                                 (ndwi.py:95)
ndwi_denominator(green, nir) == F32Add(green, nir)

\* np.where(denominator != 0, (green - nir) / denominator, 0) (ndwi.py:96-100)
ndwi_where(green, nir, denominator) ==
    IF denominator.m # 0
    THEN F32Div(F32Sub(green, nir), denominator)
    ELSE Zero

\* Defective variant: the shift by one forgotten.
ndvi_scale_unshifted(v) == F32Mul254(F32Half(v))

\* (ndvi + 1) / 2 * 254                                      (ndvi.py:106)
ndvi_scale(v) == F32Mul254(F32Half(F32Add(v, One)))

\* (ndwi + 1) / 2 * 254                                      (ndwi.py:104)
ndwi_scale(v) == F32Mul254(F32Half(F32Add(v, One)))

\* The float32 value of the source sample: integer samples as they are,
\* float samples in quarters.
Sample(src, a) == IF src.dtype = "float32" THEN F32Round(a, -2) ELSE F32(a)

\* nodata_mask (prediction/main.py:450-458): 255 for uint8 input, else
\* the source's nodata value if it has one.
uhi_nodata_mask(src) ==
    IF src.dtype = "uint8" THEN src.a = 255 ELSE src.a \in src.nodata

\* ndvi = (ndvi_raw.astype(np.float32) / 254) * 2 - 1 for uint8 input,
\* ndvi_raw.astype(np.float32) otherwise.
uhi_decode(src) ==
    IF src.dtype = "uint8"
    THEN F32Sub(F32Mul2(F32Div(Sample(src, src.a), F32(254))), One)
    ELSE Sample(src, src.a)

\* heat_risk = 1 - (ndvi + 1) / 2                 (prediction/main.py:462)
heat_risk_formula(ndvi) == F32Sub(One, F32Half(F32Add(ndvi, One)))

\* heat_risk * 254                                (prediction/main.py:465)
heat_scale(heat_risk) == F32Mul254(heat_risk)

\* heat_uint8[nodata_mask] = 255                  (prediction/main.py:466)
heat_masked(code, mask) == IF mask THEN 255 ELSE code

PxTwoInputs == px_fn \in {"ndvi", "ndwi"}

\* uhi: nodata_mask and the decoded ndvi.
PixelDecode ==
    /\ px_fn = "uhi"
    /\ px_pc = "read"
    /\ px_mask' = uhi_nodata_mask(px_src)
    /\ px_val' = uhi_decode(px_src)
    /\ px_pc' = "decoded"
    /\ UNCHANGED <<px_fn, px_src, px_den, px_code, px_out, cvars, pvars,
                   svars, ivars,
                   evars>>

\* The formula: the normalized difference, or the heat risk.
PixelIndex ==
    /\ \/ PxTwoInputs /\ px_pc = "read"
       \/ px_fn = "uhi" /\ px_pc = "decoded"
    /\ CASE px_fn = "ndvi" ->
              LET red == Sample(px_src, px_src.a)
                  nir == Sample(px_src, px_src.b)
              IN  /\ px_den' = ndvi_denominator(red, nir)
                  /\ px_val' = ndvi_where(red, nir, ndvi_denominator(red, nir))
         [] px_fn = "ndwi" ->
              LET green == Sample(px_src, px_src.a)
                  nir == Sample(px_src, px_src.b)
              IN  /\ px_den' = ndwi_denominator(green, nir)
                  /\ px_val' = ndwi_where(green, nir, ndwi_denominator(green, nir))
         [] OTHER ->
              /\ px_val' = heat_risk_formula(px_val)
              /\ UNCHANGED px_den
    /\ px_pc' = "indexed"
    /\ UNCHANGED <<px_fn, px_src, px_mask, px_code, px_out, cvars, pvars,
                   svars, ivars,
                   evars>>

\* ndvi = np.clip(ndvi, -1, 1); heat_risk = np.clip(heat_risk, 0, 1)
PixelClip ==
    /\ px_pc = "indexed"
    /\ px_val' = IF PxTwoInputs THEN np_clip(px_val, F32(-1), One)
                 ELSE np_clip(px_val, Zero, One)
    /\ px_pc' = "clipped"
    /\ UNCHANGED <<px_fn, px_src, px_den, px_mask, px_code, px_out, cvars,
                   pvars, svars, ivars,
                   evars>>

\* ndvi_uint8 = ((ndvi + 1) / 2 * 254).astype(np.uint8);
\* heat_uint8 = (heat_risk * 254).astype(np.uint8)
PixelEncode ==
    /\ px_pc = "clipped"
    /\ px_code' \in astype_uint8(CASE px_fn = "ndvi" -> ndvi_scale(px_val)
                                   [] px_fn = "ndwi" -> ndwi_scale(px_val)
                                   [] OTHER -> heat_scale(px_val))
    /\ px_pc' = "encoded"
    /\ UNCHANGED <<px_fn, px_src, px_den, px_val, px_mask, px_out, cvars,
                   pvars, svars, ivars,
                   evars>>

\* uhi: heat_uint8[nodata_mask] = 255
PixelMask ==
    /\ px_fn = "uhi"
    /\ px_pc = "encoded"
    /\ px_code' = heat_masked(px_code, px_mask)
    /\ px_pc' = "masked"
    /\ UNCHANGED <<px_fn, px_src, px_den, px_val, px_mask, px_out, cvars,
                   pvars, svars, ivars,
                   evars>>

\* dst.write(ndvi_uint8 / ndwi_uint8 / heat_uint8, 1, window=window)
PixelWrite ==
    /\ \/ PxTwoInputs /\ px_pc = "encoded"
       \/ px_fn = "uhi" /\ px_pc = "masked"
    /\ px_out' = px_code
    /\ px_pc' = "written"
    /\ UNCHANGED <<px_fn, px_src, px_den, px_val, px_mask, px_code, cvars,
                   pvars, svars, ivars,
                   evars>>

PixelStep ==
    \/ PixelDecode
    \/ PixelIndex
    \/ PixelClip
    \/ PixelEncode
    \/ PixelMask
    \/ PixelWrite

\* ---------------------------------------------- specification SpecPixel
\* One pixel through the loop body of one of the three functions, its
\* source samples drawn from the bounded sets.
Bands == ((-MaxBand)..MaxBand) \cup ((255 - MaxBand)..255)

\* The nodata value of the band sources (None, 0 or 255).
BandNodata == {{}, {0}, {255}}

BandSources ==
    [a : Bands, b : Bands, dtype : {"int"}, nodata : BandNodata]

\* The NDVI raster the prediction reads: an artifact of calculate_ndvi
\* (uint8 codes, nodata 255), or a float raster of NDVI values (in
\* quarters, between -(MaxBand + 2)/4 and (MaxBand + 2)/4) with nodata
\* -9999 or none.
UhiSources ==
    [a : 0..255, b : {0}, dtype : {"uint8"}, nodata : {{255}}]
    \cup [a : ((-(MaxBand + 2))..(MaxBand + 2)) \cup {-39996}, b : {0},
          dtype : {"float32"}, nodata : {{}, {-39996}}]

InitPixel ==
    /\ px_fn \in {"ndvi", "ndwi", "uhi"}
    /\ px_src \in (IF px_fn = "uhi" THEN UhiSources ELSE BandSources)
    /\ px_pc = "read"
    /\ px_den = Zero
    /\ px_val = Zero
    /\ px_mask = FALSE
    /\ px_code = -1
    /\ px_out = -1
    /\ NoPipeline
    /\ IdleService
    /\ IdleIngestion
    /\ IdleCog
    /\ IdleExtras
    /\ IdleStartup
    /\ IdleSync

SpecPixel == InitPixel /\ [][PixelStep]_vars

\* The source pixel is the source's no-data value.
SourceNodata ==
    \/ px_src.a \in px_src.nodata
    \/ PxTwoInputs /\ px_src.b \in px_src.nodata

\* ================================================ claims on SpecPixel
\* X / 2^k rounded to the nearest integer, halves upwards.
RoundHalfUp(X, k) ==
    IF k <= 0 THEN X * 2^(-k)
    ELSE IF k <= 30
    THEN (X \div 2^k) + (IF X % 2^k >= 2^(k - 1) THEN 1 ELSE 0)
    ELSE IF k = 31
    THEN (IF X >= 2^30 THEN 1 ELSE IF X < -(2^30) THEN -1 ELSE 0)
    ELSE 0

\* round((v - lo) / (hi - lo) * 254) for the float32 value v, computed
\* exactly: [lo, hi] = [-1, 1] for the indices, [0, 1] for the heat risk.
RoundedCode(fn, v) ==
    IF fn = "uhi"
    THEN RoundHalfUp(127 * v.m, -v.e - 1)
    ELSE 127 + RoundHalfUp(127 * v.m, -v.e)

\* The pixel was written from the computed code (not from the no-data mask).
WrittenFromValue == px_pc = "written" /\ ~(px_fn = "uhi" /\ px_mask)

\* C11: for every value v in the declared range the code written to the
\* output equals round((v - lo) / (hi - lo) * 254), with [lo, hi] = [-1, 1]
\* for NDVI and NDWI and [0, 1] for the heat risk.
C11_CodeIsRounded ==
    WrittenFromValue => px_out = RoundedCode(px_fn, px_val)

\* One band sample is 3, the other 1, and the normalized difference is 0.5.
UniformHalf ==
    /\ PxTwoInputs
    /\ {px_src.a, px_src.b} = {1, 3}
    /\ px_val = F32Round(1, -1)

\* C12: for two same-size inputs, one band uniformly 3 and the other
\* uniformly 1, so that the normalized difference is uniformly 0.5, every
\* pixel of the encoded output equals 191 and none equals the sentinel 255.
C12_HalfIs191 ==
    (px_pc = "written" /\ UniformHalf) => (px_out = 191 /\ px_out # 255)

\* floor(X / 2^k) and ceiling(X / 2^k)
FloorScaled(X, k) ==
    IF k <= 0 THEN X * 2^(-k)
    ELSE IF k <= 30 THEN X \div 2^k
    ELSE IF X >= 0 THEN 0 ELSE -1

CeilScaled(X, k) ==
    IF k <= 0 THEN X * 2^(-k)
    ELSE IF k <= 30 THEN (X \div 2^k) + (IF X % 2^k = 0 THEN 0 ELSE 1)
    ELSE IF X > 0 THEN 1 ELSE 0

\* floor and ceiling of the exact scaled value (v - lo) / (hi - lo) * 254
\* of the float32 value v.
ScaledFloor(fn, v) ==
    IF fn = "uhi" THEN FloorScaled(127 * v.m, -v.e - 1)
    ELSE 127 + FloorScaled(127 * v.m, -v.e)

ScaledCeil(fn, v) ==
    IF fn = "uhi" THEN CeilScaled(127 * v.m, -v.e - 1)
    ELSE 127 + CeilScaled(127 * v.m, -v.e)

\* v lies in the declared range: 0 <= scaled value <= 254.
InDeclaredRange(fn, v) == ScaledFloor(fn, v) >= 0 /\ ScaledCeil(fn, v) <= 254

\* C13: for every v in the declared range, decoding the code the pipeline
\* writes for v (c/254*2-1 for the indices, c/254 for the heat risk) gives
\* a value within one quantization step (hi - lo)/254 of v, and the decoded
\* value lies in [lo, hi]. In scaled units: the code is in 0..254 and
\* differs from (v - lo)/(hi - lo)*254 by at most 1.
C13_RoundTrip ==
    WrittenFromValue =>
        /\ InDeclaredRange(px_fn, px_val)
        /\ px_out \in 0..254
        /\ ScaledCeil(px_fn, px_val) <= px_out + 1
        /\ ScaledFloor(px_fn, px_val) >= px_out - 1

\* The heat risk of NDVI code 44, 210/254 less a float32 rounding error,
\* was written as 209: the decoded value is almost a full step below it.
C13_Witness ==
    /\ px_pc = "written"
    /\ px_fn = "uhi"
    /\ px_src.dtype = "uint8"
    /\ px_src.a = 44
    /\ px_out = 209

\* The value handed to astype(np.uint8) for the clipped value v.
ScaledValue(fn, v) ==
    CASE fn = "ndvi" -> ndvi_scale(v)
      [] fn = "ndwi" -> ndwi_scale(v)
      [] OTHER       -> heat_scale(v)

\* C14: the sentinel 255 is never produced by valid data: in all three
\* pipelines every pixel computed and written for a source pixel that is
\* not no-data has a code in 0..254, whatever the source value; the value
\* is clipped to the declared range before the 8-bit conversion, so the
\* conversion gets a value with integer part in 0..254 (no overflow, no
\* wrap-around).
C14_NoSentinelFromData ==
    /\ px_pc = "clipped" =>
          /\ InDeclaredRange(px_fn, px_val)
          /\ astype_uint8(ScaledValue(px_fn, px_val)) \subseteq 0..254
          /\ Cardinality(astype_uint8(ScaledValue(px_fn, px_val))) = 1
    /\ (px_pc \in {"encoded", "masked", "written"} /\ ~SourceNodata) =>
          px_code \in 0..254
    /\ (px_pc = "written" /\ ~SourceNodata) => px_out \in 0..254

\* A pixel whose raw index, 2, is outside the range (red = -1, nir = 3) was
\* clipped to 1 and written as 254.
C14_Witness ==
    /\ px_pc = "written"
    /\ px_fn = "ndvi"
    /\ px_src.a = -1
    /\ px_src.b = 3
    /\ px_src.nodata = {}
    /\ px_out = 254

\* C15: no-data propagates: in every pipeline (NDVI, NDWI, heat risk) an
\* output pixel equals the sentinel 255 wherever the source pixel is the
\* source's no-data value, whatever the formula computes for that pixel.
C15_NodataPropagates ==
    (px_pc = "written" /\ SourceNodata) => px_out = 255

\* The two band samples of the pixel sum to 0.
ZeroSum == PxTwoInputs /\ px_src.a + px_src.b = 0

\* C16: for every pixel whose two band values sum to 0 (both 0, or
\* x = -y) the denominator is 0, the raw index before clipping is exactly 0
\* (the constant of np.where, not a quotient), it stays 0 through the clip,
\* and the pixel is encoded and written as 127, the code of 0, not as 255.
C16_ZeroDenominator ==
    (ZeroSum /\ px_pc # "read") =>
        /\ px_den = Zero
        /\ px_val = Zero
        /\ px_pc \in {"encoded", "written"} => px_code = 127
        /\ px_pc = "written" => px_out = 127

\* A pixel with red = -2 and nir = 2 was written as 127.
C16_Witness ==
    /\ px_pc = "written"
    /\ px_fn = "ndvi"
    /\ px_src.a = -2
    /\ px_src.b = 2
    /\ px_den = Zero
    /\ px_out = 127

\* C17: for an 8-bit encoded NDVI input every code c in 0..254 is decoded
\* to v = c/254*2-1, the risk is 1-(v+1)/2 = (254-c)/254 clamped to [0,1],
\* and the output code is the [0,1]-encoding of that risk, 254 - c (hence
\* non-increasing in c, 0 -> 254, 254 -> 0); input code 255 gives 255.
C17_HeatOfCode ==
    (px_pc = "written" /\ px_fn = "uhi" /\ px_src.dtype = "uint8") =>
        px_out = (IF px_src.a = 255 THEN 255 ELSE 254 - px_src.a)

\* ======================================================================
\* build_overviews (services/ingestion/processors/cog.py), called directly
\* ======================================================================
\* The path every call is given, and returns.
CogPath == "file_path"

\* The `factors` arguments drawn: None (the default) or a list.
FactorArgs ==
    {[given |-> FALSE, list |-> <<>>],
     [given |-> TRUE, list |-> <<2, 4>>],
     [given |-> TRUE, list |-> <<4, 8, 16>>]}

\* The `resampling` arguments drawn (Resampling.name).
ResamplingArgs == {"average", "nearest", "bilinear"}

\* Defective variant: the levels the dataset has are not looked at.
ds_overviews_ignored(file) == <<>>

\* existing = ds.overviews(1)
ds_overviews(file) == file.overviews

\* build_overviews(file_path, factors, resampling):
\* if factors is None: factors = OVERVIEW_FACTORS
CogCall(f, rs) ==
    /\ cog_pc = "idle"
    /\ Len(cog_calls) < MaxCalls
    /\ cog_factors' = IF f.given THEN f.list ELSE OVERVIEW_FACTORS
    /\ cog_resampling' = rs
    /\ cog_pc' = "called"
    /\ UNCHANGED <<cog_file, cog_calls, xvars, pvars, svars, ivars,
                   evars>>

\* with rasterio.open(file_path, "r+") as ds
CogOpen ==
    /\ cog_pc = "called"
    /\ cog_pc' = "opened"
    /\ UNCHANGED <<cog_file, cog_factors, cog_resampling, cog_calls, xvars,
                   pvars, svars, ivars,
                   evars>>

\* if existing: return file_path   (the with block closes ds)
CogSkip ==
    /\ cog_pc = "opened"
    /\ ds_overviews(cog_file) # <<>>
    /\ cog_calls' = Append(cog_calls, [path |-> CogPath, file |-> cog_file])
    /\ cog_pc' = "idle"
    /\ UNCHANGED <<cog_file, cog_factors, cog_resampling, xvars, pvars,
                   svars, ivars,
                   evars>>

\* ds.build_overviews(factors, resampling)
CogBuild ==
    /\ cog_pc = "opened"
    /\ ds_overviews(cog_file) = <<>>
    /\ cog_file' = [cog_file EXCEPT !.overviews = cog_factors,
                                    !.ovr_method = cog_resampling]
    /\ cog_pc' = "built"
    /\ UNCHANGED <<cog_factors, cog_resampling, cog_calls, xvars, pvars,
                   svars, ivars,
                   evars>>

\* ds.update_tags(ns="rio_overview", resampling=resampling.name)
CogTag ==
    /\ cog_pc = "built"
    /\ cog_file' = [cog_file EXCEPT !.ovr_tag = cog_resampling]
    /\ cog_pc' = "tagged"
    /\ UNCHANGED <<cog_factors, cog_resampling, cog_calls, xvars, pvars,
                   svars, ivars,
                   evars>>

\* the with block closes ds; return file_path
CogReturn ==
    /\ cog_pc = "tagged"
    /\ cog_calls' = Append(cog_calls, [path |-> CogPath, file |-> cog_file])
    /\ cog_pc' = "idle"
    /\ UNCHANGED <<cog_file, cog_factors, cog_resampling, xvars, pvars,
                   svars, ivars,
                   evars>>

CogStep ==
    \/ \E f \in FactorArgs, rs \in ResamplingArgs : CogCall(f, rs)
    \/ CogOpen
    \/ CogSkip
    \/ CogBuild
    \/ CogTag
    \/ CogReturn

\* ------------------------------------------------ specification SpecCog
\* Up to MaxCalls calls of build_overviews, one after the other, on one
\* finished raster: a downloaded input without overview levels, or a file
\* that has the default pyramid already.
InitCog ==
    /\ cog_file \in
          {[overviews |-> <<>>, ovr_method |-> "", ovr_tag |-> ""],
           [overviews |-> OVERVIEW_FACTORS, ovr_method |-> "average",
            ovr_tag |-> "average"]}
    /\ cog_pc = "idle"
    /\ cog_factors = <<>>
    /\ cog_resampling = ""
    /\ cog_calls = <<>>
    /\ NoPipeline
    /\ IdleService
    /\ IdleIngestion
    /\ IdlePixel
    /\ IdleExtras
    /\ IdleStartup
    /\ IdleSync

SpecCog == InitCog /\ [][CogStep]_vars

\* ================================================== claims on SpecCog
\* C18: build_overviews is idempotent: after the first call has returned
\* the raster has overview levels, and every later call, whatever factors
\* and resampling it is given, leaves the levels, the resampling method
\* and the tags as the first call left them and returns the same path.
C18_BuildOverviewsIdempotent ==
    Len(cog_calls) >= 1 =>
        /\ cog_calls[1].file.overviews # <<>>
        /\ cog_file = cog_calls[1].file
        /\ \A i \in DOMAIN cog_calls :
              /\ cog_calls[i].file = cog_calls[1].file
              /\ cog_calls[i].path = CogPath

\* The first call built <<2, 4>> with nearest resampling on a raster
\* without levels; a second call asking for the default factors with
\* average resampling has returned.
C18_Witness ==
    /\ Len(cog_calls) = 2
    /\ cog_pc = "idle"
    /\ cog_file.overviews = <<2, 4>>
    /\ cog_file.ovr_tag = "nearest"
    /\ cog_factors = OVERVIEW_FACTORS
    /\ cog_resampling = "average"

\* ============================== claims on SpecPipe: overviews, re-runs
\* C19: every output a successful run of a pipeline (NDVI, NDWI, heat
\* risk) returns carries an overview pyramid with exactly the factors 2, 4,
\* 8, 16, 32, built in that run with average resampling, and the dataset
\* tag that records "average" as the resampling method, also when the run
\* overwrote an earlier output at the path.
C19_OverviewPyramid ==
    ppc = "Done" =>
        /\ outFile.exists
        /\ outFile.overviews = <<2, 4, 8, 16, 32>>
        /\ outFile.ovr_method = "average"
        /\ outFile.ovr_tag = "average"
        /\ Count("overviews") = 1
        /\ Count("overview_tag") = 1

\* A heat-risk run that overwrote an earlier output has returned.
C19_Witness ==
    /\ ppc = "Done"
    /\ kind = "uhi"
    /\ outFile.replaced
    /\ outFile.overviews = OVERVIEW_FACTORS
    /\ result = "path"

\* C20: a run onto an output path that holds a finished artifact replaces
\* it entirely: once the run has created its output, the size, every tile,
\* the tags and the overview levels of the file are what this run has
\* written so far, and the overview build is performed, never skipped
\* because levels exist; at Done all of them are the new run's.
C20_RerunReplaces ==
    Happened("create") =>
        /\ outFile.exists
        /\ outFile.gen = owner
        /\ outFile.height = height
        /\ outFile.width = width
        /\ outFile.tiles = SubSeq(Windows, 1, tile_count)
        /\ outFile.tags <=> Happened("tags")
        /\ outFile.overviews =
              (IF Happened("overviews") THEN OVERVIEW_FACTORS ELSE <<>>)
        /\ outFile.ovr_tag =
              (IF Happened("overview_tag") THEN "average" ELSE "")
        /\ ~Happened("overviews_skipped")
        /\ ppc = "Done" =>
              /\ outFile.tiles = Windows
              /\ outFile.tags
              /\ outFile.overviews = OVERVIEW_FACTORS
              /\ outFile.ovr_tag = "average"

\* An NDVI run on 2 x 2 inputs has replaced the earlier artifact (3 x 3,
\* four tiles) by a raster of one tile.
C20_Witness ==
    /\ ppc = "Done"
    /\ kind = "ndvi"
    /\ outFile.replaced
    /\ height = 2
    /\ width = 2
    /\ tile_size = 2
    /\ Len(outFile.tiles) = 1
    /\ Happened("overviews")

\* ======================================================================
\* Whole runs: a call of a pipeline function, and the pixels it computes
\* ======================================================================
\* ------------------------------------------------ specification SpecRuns
\* A call of a pipeline function at the level of its windows and its file,
\* or one pixel of one of its windows through the loop body.
InitRuns == InitPipe \/ InitPixel

NextRuns == PipelineStep \/ PixelStep

SpecRuns == InitRuns /\ [][NextRuns]_vars

\* ================================================= claims on SpecRuns
\* The dataset without its generation timestamp (and without the model's
\* history fields).
Comparable(f) == [f EXCEPT !.generated_at = "", !.gen = 0, !.replaced = FALSE]

\* The dataset as a function of the inputs' dimensions and the tile size.
RunOutput(k, s, t) ==
    IF k = "uhi"
    THEN Finished(k, s["src"].height, s["src"].width, t)
    ELSE Finished(k, Min(s["rgb"].height, s["nir"].height),
                     Min(s["rgb"].width, s["nir"].width), t)

\* The codes the loop body can write for a source pixel, as a function of
\* the source pixel.
PixelCodes(fn, src) ==
    LET x == Sample(src, src.a)
        y == Sample(src, src.b)
        v == CASE fn = "ndvi" ->
                    np_clip(ndvi_where(x, y, ndvi_denominator(x, y)),
                            F32(-1), One)
               [] fn = "ndwi" ->
                    np_clip(ndwi_where(x, y, ndwi_denominator(x, y)),
                            F32(-1), One)
               [] OTHER ->
                    np_clip(heat_risk_formula(uhi_decode(src)), Zero, One)
    IN  {IF fn = "uhi" THEN heat_masked(c, uhi_nodata_mask(src)) ELSE c :
            c \in astype_uint8(ScaledValue(fn, v))}

\* C21: determinism: two runs of the same pipeline on identical inputs, tile
\* size and output profile produce identical outputs (same dimensions, same
\* windows written, same code at every pixel, same overview levels, same
\* tags) except for the generation-timestamp tag: the finished dataset and
\* every written pixel are functions of the inputs alone, whatever was at
\* the output path before and whenever the run happened; only the
\* prediction stores a timestamp.
C21_Determinism ==
    /\ ppc = "Done" =>
          /\ Comparable(outFile) = Comparable(RunOutput(kind, srcs, tile_size))
          /\ kind # "uhi" => outFile = [RunOutput(kind, srcs, tile_size)
                                           EXCEPT !.gen = outFile.gen,
                                                  !.replaced = outFile.replaced]
    /\ px_pc = "written" => PixelCodes(px_fn, px_src) = {px_out}

\* A second prediction run on the input of the first replaced the first
\* run's raster by one that differs from it in the timestamp only.
C21_Witness ==
    /\ ppc = "Done"
    /\ kind = "uhi"
    /\ srcs["src"] = [height |-> MaxDim, width |-> MaxDim]
    /\ outFile.replaced
    /\ outFile.generated_at = "t2"
    /\ outFile.generated_at # Finished(kind, MaxDim, MaxDim, tile_size).generated_at
    /\ Comparable(outFile) = Comparable(Finished(kind, MaxDim, MaxDim, tile_size))

\* ================================== claims on SpecPipe: the common extent
\* The window lies inside the raster of dimensions d.
InsideInput(win, d) ==
    /\ win.col_off >= 0
    /\ win.row_off >= 0
    /\ win.col_off + win.width <= d.width
    /\ win.row_off + win.height <= d.height

\* The two inputs are open and `height`, `width` have been computed.
ExtentKnown ==
    /\ TwoInputs
    /\ ppc \notin {"start", "opened1"}
    /\ failedAt \notin {"start", "opened1"}

\* C22: when the two inputs differ in pixel dimensions, the output has
\* height min(H_rgb, H_nir) and width min(W_rgb, W_nir), every window read
\* lies inside both inputs, both bands are read at the identical window
\* that is then written, and no window is produced for any pixel outside
\* the common top-left-aligned rectangle.
C22_CommonExtent ==
    /\ [](ExtentKnown =>
            /\ height = Min(srcs["rgb"].height, srcs["nir"].height)
            /\ width = Min(srcs["rgb"].width, srcs["nir"].width)
            /\ Happened("create") =>
                  (outFile.height = height /\ outFile.width = width)
            /\ \A i \in 1..Len(Windows) :
                  /\ InsideInput(Windows[i], srcs["rgb"])
                  /\ InsideInput(Windows[i], srcs["nir"])
                  /\ InsideInput(Windows[i], [height |-> height, width |-> width])
            /\ \A b \in inflight :
                  /\ b.window = CurWindow
                  /\ InsideInput(b.window, srcs["rgb"])
                  /\ InsideInput(b.window, srcs["nir"])
            /\ ppc = "computed" => {b.band : b \in inflight} = {"rgb", "nir"}
            /\ Happened("create") =>
                  \A i \in 1..Len(outFile.tiles) : outFile.tiles[i] = Windows[i])
    /\ [][(TwoInputs /\ ppc = "computed" /\ ppc' = "loop") =>
            /\ Len(outFile'.tiles) = Len(outFile.tiles) + 1
            /\ \A b \in inflight :
                  b.window = outFile'.tiles[Len(outFile'.tiles)]]_vars

\* A finished NDVI run on an RGB raster taller than the NIR raster and a NIR
\* raster wider than the RGB raster, in more than one tile.
C22_Witness ==
    /\ ppc = "Done"
    /\ kind = "ndvi"
    /\ srcs["rgb"].height > srcs["nir"].height
    /\ srcs["rgb"].width < srcs["nir"].width
    /\ outFile.height = srcs["nir"].height
    /\ outFile.width = srcs["rgb"].width
    /\ Len(outFile.tiles) > 1
    /\ outFile.tiles = Windows

\* The two inputs differ in height or in width.
Mismatch ==
    \/ srcs["rgb"].height # srcs["nir"].height
    \/ srcs["rgb"].width # srcs["nir"].width

\* The running call has logged a record of level WARNING.
Warned == \E i \in 1..Len(log) : log[i].level = "WARNING"

\* C23: a dimension mismatch between the two inputs is not fatal but is
\* observable: whenever the inputs' heights or widths differ, the run
\* completes over the common extent and a warning is emitted for that run;
\* no warning is emitted when the dimensions are equal.
C23_MismatchWarned ==
    (TwoInputs /\ ppc = "Done") =>
        /\ outFile.height = Min(srcs["rgb"].height, srcs["nir"].height)
        /\ outFile.width = Min(srcs["rgb"].width, srcs["nir"].width)
        /\ Warned <=> Mismatch

\* ===================================== claims on SpecPipe: window sizes
\* The window is in the last tile-column / the last tile-row of the raster.
LastColumn(win) == win.col_off + tile_size >= width

LastRow(win) == win.row_off + tile_size >= height

\* The windows the running call generates and the windows it has written.
Generated ==
    {Windows[i] : i \in 1..Len(Windows)}
    \cup (IF Happened("create")
          THEN {outFile.tiles[i] : i \in 1..Len(outFile.tiles)}
          ELSE {})

\* C24 as stated: edge tiles are strictly smaller than tile_size: for every
\* (H, W, T), the windows of the last tile-column have width < T and the
\* windows of the last tile-row have height < T.
C24_EdgeStrictlySmaller ==
    \A win \in Generated :
        /\ LastColumn(win) => win.width < tile_size
        /\ LastRow(win) => win.height < tile_size

\* C24, amended: the windows of the last tile-column have width
\* W - T * (ceil(W / T) - 1), which is at most T, and smaller than T exactly
\* when W is not a multiple of T; likewise the heights of the last tile-row;
\* every other window is T wide (T high).
C24_EdgeSizes ==
    \A win \in Generated :
        /\ LastColumn(win) =>
              /\ win.width = width - tile_size * (((width + tile_size - 1) \div tile_size) - 1)
              /\ win.width <= tile_size
              /\ win.width < tile_size <=> width % tile_size # 0
        /\ ~LastColumn(win) => win.width = tile_size
        /\ LastRow(win) =>
              /\ win.height = height - tile_size * (((height + tile_size - 1) \div tile_size) - 1)
              /\ win.height <= tile_size
              /\ win.height < tile_size <=> height % tile_size # 0
        /\ ~LastRow(win) => win.height = tile_size

\* A finished run on a raster whose width is a multiple of the tile size and
\* whose height is not: the last column is a full tile wide, the last row
\* is lower than a tile.
C24_Witness ==
    /\ ppc = "Done"
    /\ tile_size = 2
    /\ width = 2
    /\ height = 3
    /\ outFile.tiles = <<Window(0, 0, 2, 2), Window(0, 2, 2, 1)>>

\* C25: no window is ever zero-sized or oversized: for every (H, W, T) with
\* T > 0, every generated window has 1 <= width <= T and 1 <= height <= T,
\* and a raster with H = 0 or W = 0 yields no window at all.
C25_WindowSizes ==
    /\ tile_size > 0 =>
          \A win \in Generated :
              /\ 1 <= win.width
              /\ win.width <= tile_size
              /\ 1 <= win.height
              /\ win.height <= tile_size
    /\ (height = 0 \/ width = 0) =>
          /\ Windows = <<>>
          /\ Generated = {}
          /\ ~Happened("read")
          /\ ~Happened("write")

\* A finished run on a 3 x 3 raster with tile size 2: four windows, of 2 x 2,
\* 1 x 2, 2 x 1 and 1 x 1 pixels.
C25_Witness ==
    /\ ppc = "Done"
    /\ tile_size = 2
    /\ height = 3
    /\ width = 3
    /\ {<<outFile.tiles[i].width, outFile.tiles[i].height>> :
            i \in 1..Len(outFile.tiles)} = {<<2, 2>>, <<1, 2>>, <<2, 1>>, <<1, 1>>}

\* C26: the three pipelines tile identically: for equal (height, width,
\* tile_size), the window sequences generated by calculate_ndvi,
\* calculate_ndwi and generate_uhi_prediction are the same sequence (same
\* windows in the same order), so no formula sees a different edge
\* treatment; the windows a call of any of the three has written are a
\* prefix of that sequence, and all of it when the call returns.
C26_SameTiling ==
    /\ ppc = "start" =>
          \A h \in 0..MaxDim, w \in 0..MaxDim :
              /\ ndvi_windows(h, w, tile_size) = ndwi_windows(h, w, tile_size)
              /\ ndwi_windows(h, w, tile_size) = uhi_windows(h, w, tile_size)
    /\ Happened("create") =>
          \A f \in {ndvi_windows(height, width, tile_size),
                    ndwi_windows(height, width, tile_size),
                    uhi_windows(height, width, tile_size)} :
              /\ Len(outFile.tiles) <= Len(f)
              /\ \A i \in 1..Len(outFile.tiles) : outFile.tiles[i] = f[i]
              /\ ppc = "Done" => outFile.tiles = f

\* A finished prediction run wrote, in four tiles, exactly the sequence the
\* NDVI loops generate for the same dimensions and tile size.
C26_Witness ==
    /\ ppc = "Done"
    /\ kind = "uhi"
    /\ Len(outFile.tiles) = 4
    /\ outFile.tiles = ndvi_windows(height, width, tile_size)
    /\ outFile.tiles[2].width < outFile.tiles[1].width

\* ======================================================================
\* The write profile of the outputs
\* ======================================================================
\* Tile size for COG                                          (cog.py:28)
COG_BLOCKSIZE == 512

\* The same constant of the prediction service    (prediction/main.py:35)
prediction_COG_BLOCKSIZE == 512

\* dict.update(**kv): the entries of kv added or overwritten.
dict_update(d, kv) ==
    [k \in (DOMAIN d) \cup (DOMAIN kv) |->
        IF k \in DOMAIN kv THEN kv[k] ELSE d[k]]

\* dict.pop(key, None): the entry removed if present, no error if absent.
dict_pop(d, key) == [k \in (DOMAIN d) \ {key} |-> d[k]]

\* Defective variant: the photometric entry of the template kept.
create_cog_profile_keep(src_profile, dtype) ==
    dict_update(src_profile,
                [driver |-> "GTiff", dtype |-> dtype, count |-> 1,
                 compress |-> "deflate", predictor |-> 2, tiled |-> TRUE,
                 blockxsize |-> COG_BLOCKSIZE, blockysize |-> COG_BLOCKSIZE,
                 nodata |-> IF dtype = "uint8" THEN {255} ELSE {-9999}])

\* create_cog_profile(src_profile, dtype): the copy updated, photometric
\* popped. (A nodata value is a set: empty for None.)
create_cog_profile(src_profile, dtype) ==
    dict_pop(dict_update(src_profile,
                [driver |-> "GTiff", dtype |-> dtype, count |-> 1,
                 compress |-> "deflate", predictor |-> 2, tiled |-> TRUE,
                 blockxsize |-> COG_BLOCKSIZE, blockysize |-> COG_BLOCKSIZE,
                 nodata |-> IF dtype = "uint8" THEN {255} ELSE {-9999}]),
             "photometric")

ProfTwoInputs == prof_fn \in {"ndvi", "ndwi"}

\* profile = rgb_src.profile.copy() / profile = src.profile.copy()
ProfileCopy ==
    /\ prof_pc = "start"
    /\ profile' = prof_src
    /\ prof_pc' = "copied"
    /\ UNCHANGED <<prof_fn, prof_src, prof_dims, prof_dst, xvars, cvars,
                   pvars, svars, ivars, uvars,
                   gvars>>

\* profile.update(height=height, width=width)       (ndvi.py:73-76)
ProfileSize ==
    /\ ProfTwoInputs
    /\ prof_pc = "copied"
    /\ profile' = dict_update(profile, [height |-> prof_dims.height,
                                        width |-> prof_dims.width])
    /\ prof_pc' = "sized"
    /\ UNCHANGED <<prof_fn, prof_src, prof_dims, prof_dst, xvars, cvars,
                   pvars, svars, ivars, uvars,
                   gvars>>

\* profile = create_cog_profile(profile, dtype="uint8")  (ndvi.py:77)
ProfileCog ==
    /\ ProfTwoInputs
    /\ prof_pc = "sized"
    /\ profile' = create_cog_profile(profile, "uint8")
    /\ prof_pc' = "ready"
    /\ UNCHANGED <<prof_fn, prof_src, prof_dims, prof_dst, xvars, cvars,
                   pvars, svars, ivars, uvars,
                   gvars>>

\* profile.update(driver="GTiff", ...)     (prediction/main.py:421-431)
ProfileUpdate ==
    /\ prof_fn = "uhi"
    /\ prof_pc = "copied"
    /\ profile' = dict_update(profile,
           [driver |-> "GTiff", dtype |-> "uint8", count |-> 1,
            nodata |-> {255}, compress |-> "deflate", predictor |-> 2,
            tiled |-> TRUE, blockxsize |-> prediction_COG_BLOCKSIZE,
            blockysize |-> prediction_COG_BLOCKSIZE])
    /\ prof_pc' = "updated"
    /\ UNCHANGED <<prof_fn, prof_src, prof_dims, prof_dst, xvars, cvars,
                   pvars, svars, ivars, uvars,
                   gvars>>

\* profile.pop("photometric", None)            (prediction/main.py:432)
ProfilePop ==
    /\ prof_fn = "uhi"
    /\ prof_pc = "updated"
    /\ profile' = dict_pop(profile, "photometric")
    /\ prof_pc' = "ready"
    /\ UNCHANGED <<prof_fn, prof_src, prof_dims, prof_dst, xvars, cvars,
                   pvars, svars, ivars, uvars,
                   gvars>>

\* rasterio.open(output_path, 'w', **profile)
ProfileOpen ==
    /\ prof_pc = "ready"
    /\ prof_dst' = profile
    /\ prof_pc' = "opened"
    /\ UNCHANGED <<prof_fn, prof_src, prof_dims, profile, xvars, cvars,
                   pvars, svars, ivars, uvars,
                   gvars>>

ProfileStep ==
    \/ ProfileCopy
    \/ ProfileSize
    \/ ProfileCog
    \/ ProfileUpdate
    \/ ProfilePop
    \/ ProfileOpen

\* --------------------------------------------- specification SpecProfile
\* One call building its write profile from the profile of its first input,
\* drawn from the bounded set: the entries every dataset has, and the
\* optional photometric, compress and tiling entries.
RequiredEntries ==
    [driver : {"GTiff", "JP2OpenJPEG"}, dtype : {"uint8", "uint16"},
     count : {1, 3}, nodata : {{}, {0}}, height : {2}, width : {2}]

OptionalPhotometric ==
    {<<>>, [photometric |-> "RGB"], [photometric |-> "YCBCR"]}

OptionalCompress == {<<>>, [compress |-> "jpeg"]}

OptionalTiling ==
    {<<>>, [tiled |-> FALSE], [tiled |-> TRUE, blockxsize |-> 256,
                               blockysize |-> 256]}

Templates ==
    {dict_update(dict_update(dict_update(b, ph), c), t) :
        b \in RequiredEntries, ph \in OptionalPhotometric,
        c \in OptionalCompress, t \in OptionalTiling}

InitProfile ==
    /\ prof_fn \in {"ndvi", "ndwi", "uhi"}
    /\ prof_src \in Templates
    /\ prof_dims = [height |-> 1, width |-> 2]
    /\ prof_pc = "start"
    /\ profile = <<>>
    /\ prof_dst = <<>>
    /\ NoPipeline
    /\ IdleService
    /\ IdleIngestion
    /\ IdlePixel
    /\ IdleCog
    /\ IdleStartup
    /\ IdleSync

SpecProfile == InitProfile /\ [][ProfileStep]_vars

\* =============================================== claims on SpecProfile
\* The entries the write profile overrides.
Overridden ==
    {"driver", "dtype", "count", "compress", "predictor", "tiled",
     "blockxsize", "blockysize", "nodata"}

\* C27: the write profile of every output is the template profile
\* overridden to: GTiff driver, dtype uint8, band count 1, deflate
\* compression with predictor 2, tiled with 512x512 blocks, nodata 255; and
\* it contains no 'photometric' entry whatever the template contained. This
\* holds both for create_cog_profile (NDVI, NDWI) and for the profile built
\* inline by generate_uhi_prediction.
C27_WriteProfile ==
    prof_pc = "opened" =>
        /\ Overridden \subseteq DOMAIN prof_dst
        /\ prof_dst["driver"] = "GTiff"
        /\ prof_dst["dtype"] = "uint8"
        /\ prof_dst["count"] = 1
        /\ prof_dst["compress"] = "deflate"
        /\ prof_dst["predictor"] = 2
        /\ prof_dst["tiled"] = TRUE
        /\ prof_dst["blockxsize"] = 512
        /\ prof_dst["blockysize"] = 512
        /\ prof_dst["nodata"] = {255}
        /\ "photometric" \notin DOMAIN prof_dst
        /\ DOMAIN prof_dst = ((DOMAIN prof_src) \cup Overridden) \ {"photometric"}
        /\ \A k \in (DOMAIN prof_src) \ (Overridden \cup {"photometric", "height", "width"}) :
              prof_dst[k] = prof_src[k]
        /\ prof_dst["height"] = (IF ProfTwoInputs THEN prof_dims.height
                                 ELSE prof_src["height"])
        /\ prof_dst["width"] = (IF ProfTwoInputs THEN prof_dims.width
                                ELSE prof_src["width"])

\* An NDWI output created from the profile of a three-band, JPEG-compressed
\* YCbCr JPEG 2000 template without tiling.
C27_Witness ==
    /\ prof_pc = "opened"
    /\ prof_fn = "ndwi"
    /\ prof_src["driver"] = "JP2OpenJPEG"
    /\ prof_src["count"] = 3
    /\ "photometric" \in DOMAIN prof_src
    /\ prof_src["photometric"] = "YCBCR"
    /\ "compress" \in DOMAIN prof_src
    /\ "tiled" \notin DOMAIN prof_src
    /\ "photometric" \notin DOMAIN prof_dst
    /\ prof_dst["tiled"] = TRUE

\* ============================ claims on SpecPrediction: input resolution
\* The status the trigger fails with, per failure of the NDVI resolution.
FailureStatus ==
    [connect_error |-> "503", timeout |-> "504", orion_error |-> "502",
     not_found |-> "404", no_filePath |-> "502", file_missing |-> "404"]

\* C28: the prediction engine is only ever handed an NDVI path that was
\* resolved from the Orion entity and existed on disk when resolved: if
\* Orion is unreachable (503), times out (504), answers with another error
\* (502), the NDVI entity is missing (404), has no filePath (502) or names a
\* file that does not exist (404), the trigger fails with that status, no
\* raster file is written and no entity is registered.
C28_ResolvedOrFailed ==
    /\ \A r \in Reqs :
          /\ hist[r].genStarted => (hist[r].ndvi /\ hist[r].ndviReply = "ok")
          /\ hist[r].ndviReply \in DOMAIN FailureStatus =>
                /\ task[r].pc = "done"
                /\ task[r].resp = FailureStatus[hist[r].ndviReply]
                /\ ~hist[r].genStarted
                /\ ~hist[r].genDone
                /\ hist[r].regRequests = 0
          /\ (kind = "uhi" /\ owner = r) => hist[r].ndviReply = "ok"
    /\ (\A r \in Reqs : hist[r].ndviReply # "ok") =>
          (outFile = Absent /\ ~orion.exists)

\* Two triggers failed, one on an Orion timeout and one on an NDVI file
\* missing from disk: no raster, no entity.
C28_Witness ==
    /\ \E r \in Reqs :
          /\ task[r].pc = "done"
          /\ hist[r].ndviReply = "timeout"
          /\ task[r].resp = "504"
    /\ \E r \in Reqs :
          /\ task[r].pc = "done"
          /\ hist[r].ndviReply = "file_missing"
          /\ task[r].resp = "404"
    /\ outFile = Absent
    /\ ~orion.exists

\* ======================================= claims on SpecServices: the gates
\* A prediction run is in progress (some request is inside _run_prediction's
\* async with block).
PredictionRunning == \E r \in Reqs : task[r].pc \in BodyPcs

\* An ingestion run is in progress.
IngestionRunning == \E q \in IReqs : ireq[q].pc \in PipelinePcs

\* C29: whenever a prediction run or an ingestion run ends, by success or by
\* any failure at any step, its gate is released (the prediction lock is
\* unlocked; ingestion_status['running'] is False), so a trigger arriving
\* after the end of a run is never skipped or rejected because of that run:
\* the step that ends a run leaves the gate open, the gate is closed only
\* while some run is in progress, and a trigger is skipped (rejected with
\* 409) only while some run is in progress.
C29_GateReleased ==
    /\ [][\A r \in Reqs :
            (task[r].pc \in BodyPcs /\ task'[r].pc = "done") => ~locked']_vars
    /\ [][\A q \in IReqs :
            (ireq[q].pc \in PipelinePcs /\ ireq'[q].pc = "done") =>
                ~ingestion_status'.running]_vars
    /\ [](locked => PredictionRunning)
    /\ [](ingestion_status.running => IngestionRunning)
    /\ [][\A r \in Reqs :
            (task[r].pc = "new" /\ task'[r].resp = "skipped") =>
                PredictionRunning]_vars
    /\ [][\A q \in IReqs :
            (ireq[q].pc = "new" /\ ireq'[q].resp = "409") =>
                IngestionRunning]_vars

\* A prediction run ended in an exception of the engine; a /predict trigger
\* that arrived later was not skipped and ran to success.
C29_Witness ==
    \E r1 \in Reqs, r2 \in Reqs :
        /\ r1 < r2
        /\ task[r1].pc = "done"
        /\ task[r1].resp = "500"
        /\ hist[r1].genFailed
        /\ task[r2].ep = "predict"
        /\ ~hist[r2].lockedAtArrival
        /\ task[r2].pc = "done"
        /\ task[r2].resp = "success"
        /\ ~locked

\* ======================================================================
\* Startup of the prediction service: lifespan
\* ======================================================================
\* for attempt in range(5)                      (prediction/main.py:145)
Attempts == 5

\* What Orion answers to POST /subscriptions, or "exception" when the
\* request raises (Orion unreachable, timeout): 409 when the subscription
\* exists.
PostOutcomes == IF sub THEN {"409", "error", "exception"}
                ELSE {"201", "error", "exception"}

\* Whether _register_prediction_subscription raises: an error status is
\* logged with logger.error and the function returns; any exception is
\* caught by `except Exception` and logged with logger.warning.
register_raises(outcome) == FALSE

\* _register_prediction_subscription is called and its first POST is
\* answered: 201 returns, 409 goes on to delete and re-create.
StartupPost(outcome) ==
    /\ st_pc = "register"
    /\ outcome \in PostOutcomes
    /\ st_calls' = st_calls + 1
    /\ st_pc' = IF outcome = "409" THEN "recreate"
                ELSE IF register_raises(outcome) THEN "raised"
                ELSE "returned"
    /\ st_ok' = (st_ok \/ outcome = "201")
    /\ sub' = (sub \/ outcome = "201")
    /\ UNCHANGED <<st_attempt, fvars, xvars, cvars, pvars, svars, ivars, gvars>>

\* After 409: client.delete(...), whose answer is not looked at, then the
\* second POST (not reached when the delete raises; answered 201 only when
\* the delete removed the subscription).
StartupRecreate(del, outcome) ==
    /\ st_pc = "recreate"
    /\ del = "refused" => outcome # "201"
    /\ del = "exception" => outcome = "exception"
    /\ st_pc' = IF register_raises(outcome) THEN "raised" ELSE "returned"
    /\ st_ok' = (st_ok \/ outcome = "201")
    /\ sub' = IF del = "deleted" THEN outcome = "201" ELSE sub
    /\ UNCHANGED <<st_attempt, st_calls, fvars, xvars, cvars, pvars, svars,
                   ivars, gvars>>

\* The loop of lifespan around the call: break when it returned; when it
\* raised, a warning, asyncio.sleep(3) and the next attempt; after the loop
\* the yield.
LifespanNext ==
    /\ st_pc \in {"returned", "raised"}
    /\ IF st_pc = "returned"
       THEN /\ st_pc' = "serving"
            /\ UNCHANGED st_attempt
       ELSE /\ st_attempt' = st_attempt + 1
            /\ st_pc' = IF st_attempt + 1 < Attempts THEN "register"
                        ELSE "serving"
    /\ UNCHANGED <<st_calls, st_ok, sub, fvars, xvars, cvars, pvars, svars,
                   ivars, gvars>>

StartupStep ==
    \/ \E outcome \in {"201", "409", "error", "exception"} :
          StartupPost(outcome)
    \/ \E del \in {"deleted", "refused", "exception"},
          outcome \in {"201", "error", "exception"} :
          StartupRecreate(del, outcome)
    \/ LifespanNext

\* Requests are served after the yield.
Serving == st_pc = "serving" /\ PredictionStep

\* --------------------------------------------- specification SpecStartup
\* The prediction service from its start: lifespan registers the
\* subscription, then requests are served.
InitStartup ==
    /\ ModuleLoaded
    /\ st_pc = "register"
    /\ st_attempt = 0
    /\ st_calls = 0
    /\ st_ok = FALSE
    /\ sub \in BOOLEAN
    /\ IdleSync

NextStartup == StartupStep \/ Serving

SpecStartup == InitStartup /\ [][NextStartup]_vars

\* =============================================== claims on SpecStartup
\* C30: during startup of the prediction service, a failed subscription
\* registration (Orion unreachable, or an error status from Orion) is
\* retried: registration is attempted again after a pause, up to 5 attempts
\* in total, and startup proceeds to serving after the first success or
\* after the attempts are exhausted.
C30_RegistrationRetried ==
    /\ st_calls <= 5
    /\ st_pc = "serving" => (st_ok \/ st_calls = 5)
    /\ st_ok => st_pc \in {"returned", "serving"}

\* ================================= claims on SpecIngestion: layers_created
\* C35: the ingestion status lists only registered layers: a layer type
\* appears in ingestion_status['layers_created'] only if its
\* create_or_update_layer call succeeded (Orion accepted the create or the
\* update), and when the run ends with progress 'Ingestion complete!' every
\* layer in layers_created is registered in Orion.
C35_ListedIsRegistered ==
    /\ \A layer \in ingestion_status.layers_created : layer \in iorion
    /\ ingestion_status.progress = "Ingestion complete!" =>
          ingestion_status.layers_created \subseteq iorion

\* =========================== claims on SpecPrediction: the optional NDWI
\* C36: NDWI is optional for prediction: a failure to resolve the NDWI
\* entity (Orion error, missing entity, missing filePath, missing file,
\* connection failure or timeout) never blocks or fails a prediction whose
\* NDVI input resolved; the run proceeds with NDVI alone, and the registered
\* inputLayers contains the NDWI entity id if and only if NDWI was resolved.
C36_NdwiOptional ==
    /\ [][\A r \in Reqs :
            (task[r].pc = "resolve_ndwi" /\ task'[r].pc # "resolve_ndwi") =>
                /\ hist[r].ndvi
                /\ task'[r].pc = "generating"
                /\ task'[r].resp = "none"
                /\ hist'[r].genStarted
                /\ kind' = "uhi"
                /\ ppc' = "start"]_vars
    /\ [][\A r \in Reqs :
            (task[r].pc \in {"register_post", "register_patch"}
             /\ orion' # orion) =>
                /\ orion'.exists
                /\ "NDVI" \in orion'.inputLayers
                /\ "NDWI" \in orion'.inputLayers <=> hist[r].ndwi]_vars
    /\ [](\A r \in Reqs :
            (hist[r].ndvi /\ ~hist[r].ndwi /\ task[r].pc = "done") =>
                task[r].resp \in {"success", "500"})

\* A prediction whose NDWI resolution failed ran on NDVI alone, succeeded
\* and registered an entity listing NDVI only.
C36_Witness ==
    \E r \in Reqs :
        /\ task[r].pc = "done"
        /\ task[r].resp = "success"
        /\ hist[r].ndvi
        /\ ~hist[r].ndwi
        /\ hist[r].genDone
        /\ orion.exists
        /\ orion.inputLayers = {"NDVI"}

\* ================================= claims on SpecPipe: unopenable inputs
\* The call failed opening its first or its second input.
InputOpenFailed == TwoInputs /\ failedAt \in {"start", "opened1"}

\* C37: if either input raster cannot be opened, the output file is left
\* untouched: calculate_ndvi and calculate_ndwi fail before the output path
\* is opened for writing, so a file already present at output_path keeps its
\* previous content and no file is created when none existed.
C37_OutputUntouched ==
    /\ [][(TwoInputs /\ ppc \in {"start", "opened1"}) =>
            outFile' = outFile]_vars
    /\ [](InputOpenFailed =>
            /\ ppc = "Failed"
            /\ ~Happened("create")
            /\ ~Happened("write")
            /\ outFile \in {Absent, Finished(kind, MaxDim, MaxDim, tile_size)})

\* The NIR raster could not be opened: the NDVI artifact of an earlier run is
\* still at the output path, as that run left it.
C37_Witness ==
    /\ kind = "ndvi"
    /\ ppc = "Failed"
    /\ failedAt = "opened1"
    /\ outFile.exists
    /\ outFile = Finished(kind, MaxDim, MaxDim, tile_size)

\* ====================================================================
\* GeoServer sync service: translate_path
\* ====================================================================

\* Bounds of the strings tried: paths and prefixes over PathChars.
MaxPath == 3
MaxKey == 2
MaxMappings == 2
PathChars == {"/", "a"}
GeoPrefixes == {"G", "a/"}

RECURSIVE Strings(_)
Strings(n) ==
    IF n = 0 THEN {""}
    ELSE Strings(n - 1) \cup
         {s \o c : s \in {t \in Strings(n - 1) : Len(t) = n - 1},
                   c \in PathChars}

\* str.startswith(prefix)
startswith(s, prefix) ==
    /\ Len(prefix) <= Len(s)
    /\ SubSeq(s, 1, Len(prefix)) = prefix

\* s[i:]  (the characters of s after the first i)
str_from(s, i) == SubSeq(s, i + 1, Len(s))

\* str.replace(old, new, 1): the leftmost occurrence of old is replaced,
\* and s is returned as it is when old does not occur.
str_replace_first(s, old, new) ==
    LET n == Len(old)
        occ == {i \in 0..(Len(s) - n) : SubSeq(s, i + 1, i + n) = old}
    IN  IF occ = {} THEN s
        ELSE LET i == CHOOSE j \in occ : \A k \in occ : j <= k
             IN  SubSeq(s, 1, i) \o new \o str_from(s, i + n)

\* Defective variant: the shortest prefix first.
sorted_by_length_ascending(keys) ==
    {o \in [1..Cardinality(keys) -> keys] :
        /\ \A i, j \in DOMAIN o : i /= j => o[i] /= o[j]
        /\ \A i, j \in DOMAIN o : i < j => Len(o[i]) <= Len(o[j])}

\* sorted(keys, key=lambda x: -len(x)): the lists of all the keys in
\* descending length; keys of the same length keep the dict's order,
\* which is the order of the environment and is not fixed.
sorted_by_length(keys) ==
    {o \in [1..Cardinality(keys) -> keys] :
        /\ \A i, j \in DOMAIN o : i /= j => o[i] /= o[j]
        /\ \A i, j \in DOMAIN o : i < j => Len(o[i]) >= Len(o[j])}

\* The index of the first item of the sorted list the path starts with
\* (the item at which the loop returns); none when the loop ends.
first_match(container_path, order) ==
    LET hits == {i \in DOMAIN order : startswith(container_path, order[i])}
    IN  IF hits = {} THEN {}
        ELSE {CHOOSE i \in hits : \A k \in hits : i <= k}

\* translate_path(container_path), with `order` the sorted list of the
\* keys of PATH_MAPPINGS
translate_path(container_path, order, mappings) ==
    LET hit == first_match(container_path, order)
    IN  IF hit = {} THEN container_path
        ELSE LET src == order[CHOOSE i \in hit : TRUE]
             IN  str_replace_first(container_path, src, mappings[src])

\* One call of translate_path.
TranslatePath ==
    /\ tp_pc = "called"
    /\ \E order \in sorted_by_length(DOMAIN tp_map) :
          /\ tp_order' = order
          /\ tp_warned' = (first_match(tp_path, order) = {})
          /\ tp_result' = translate_path(tp_path, order, tp_map)
    /\ tp_pc' = "returned"
    /\ UNCHANGED <<tp_path, tp_map, kvars, yvars, nonsync>>

TranslateStep == TranslatePath

\* The values PATH_MAPPINGS can have: never empty (the defaults are
\* used when the environment configures nothing).
PathMappings ==
    UNION {[ks -> GeoPrefixes] :
              ks \in {k \in SUBSET Strings(MaxKey) :
                         /\ k /= {}
                         /\ Cardinality(k) <= MaxMappings}}

InitTranslate ==
    /\ tp_path \in Strings(MaxPath)
    /\ tp_map \in PathMappings
    /\ tp_pc = "called"
    /\ tp_order = <<>>
    /\ tp_warned = FALSE
    /\ tp_result = ""
    /\ NoPipeline
    /\ IdleService
    /\ IdleIngestion
    /\ IdlePixel
    /\ IdleCog
    /\ IdleProfile
    /\ IdleStartup
    /\ IdlePublish
    /\ IdleSyncStartup

SpecTranslate == InitTranslate /\ [][TranslateStep]_vars

\* ============================================= claims on SpecTranslate
\* The configured source prefixes that are prefixes of the path.
Matching == {src \in DOMAIN tp_map : startswith(tp_path, src)}

\* C39: translate_path rewrites by the longest matching mapping: when
\* configured source prefixes are prefixes of the path, the result is
\* the mapped GeoServer prefix of the longest of them followed by the
\* rest of the path (only the leading occurrence is replaced); when no
\* configured prefix matches, the path is returned unchanged.
C39_LongestPrefix ==
    tp_pc = "returned" =>
        IF Matching = {} THEN tp_result = tp_path
        ELSE \E src \in Matching :
                /\ \A other \in Matching : Len(other) <= Len(src)
                /\ tp_result = tp_map[src] \o str_from(tp_path, Len(src))

\* Two prefixes of different lengths match, the longer one occurs again
\* later in the path, and the path was translated.
C39_Witness ==
    /\ tp_pc = "returned"
    /\ \E s1, s2 \in Matching :
          /\ Len(s1) < Len(s2)
          /\ tp_map[s1] /= tp_map[s2]
          /\ Len(s2) > 0
          /\ \E i \in 1..(Len(tp_path) - Len(s2)) :
                SubSeq(tp_path, i + 1, i + Len(s2)) = s2

\* ====================================================================
\* GeoServer sync service: derive_layer_info, sync_entity, publish_layer
\* ====================================================================

\* Calls of sync_entity followed in one run.
MaxSync == 2

\* PATH_MAPPINGS when the environment configures none.
DefaultMappings ==
    [src \in {"/data/processed", "/data/raw"} |->
        IF src = "/data/processed"
        THEN "/opt/geoserver_data/data/uhi_processed"
        ELSE "/opt/geoserver_data/data/uhi_raw"]

UpperCase == "ABCDEFGHIJKLMNOPQRSTUVWXYZ"
LowerCase == "abcdefghijklmnopqrstuvwxyz"

\* str.lower(), character by character
RECURSIVE str_lower(_)
str_lower(s) ==
    IF s = "" THEN ""
    ELSE LET c == SubSeq(s, 1, 1)
             up == {i \in 1..Len(UpperCase) : SubSeq(UpperCase, i, i) = c}
             lc == IF up = {} THEN c
                   ELSE LET i == CHOOSE j \in up : TRUE
                        IN  SubSeq(LowerCase, i, i)
         IN  lc \o str_lower(SubSeq(s, 2, Len(s)))

\* The positions of the separator in s.
str_find(s, sep) == {i \in 1..Len(s) : SubSeq(s, i, i) = sep}

\* s.split(sep, 1)[1], for an s that holds the separator
after_first(s, sep) ==
    str_from(s, CHOOSE i \in str_find(s, sep) :
                    \A k \in str_find(s, sep) : i <= k)

\* s.split(sep)[-1]
after_last(s, sep) ==
    IF str_find(s, sep) = {} THEN s
    ELSE str_from(s, CHOOSE i \in str_find(s, sep) :
                         \A k \in str_find(s, sep) : k <= i)

\* entity.get(attr, {}).get("value", default); an attribute is the set
\* of its values, empty when the entity has no such attribute
attr_value(entity, attr, default) ==
    IF entity[attr] = {} THEN default
    ELSE CHOOSE v \in entity[attr] : TRUE

\* Defective variant: the store is named as the layer.
store_name_plain(name) == name

\* f"store_{name}"
store_name_of(name) == "store_" \o name

\* The layer name derive_layer_info gives an entity of each type.
layer_name(entity) ==
    IF entity.type = "GeoSpatialLayer"
    THEN str_lower(attr_value(entity, "layerType", "unknown"))
    ELSE IF entity.type = "UHIHeatMap"
    THEN "uhi_prediction"
    ELSE LET gs_layer == attr_value(entity, "geoserverLayer", "")
         IN  IF str_find(gs_layer, ":") /= {}
             THEN after_first(gs_layer, ":")
             ELSE IF gs_layer /= "" THEN gs_layer
             ELSE after_last(entity.id, ":")

\* The layer title derive_layer_info gives an entity.
layer_title(entity) ==
    attr_value(entity, "name",
               IF entity.type = "UHIHeatMap"
               THEN "UHI Heat Risk Prediction"
               ELSE layer_name(entity))

\* derive_layer_info(entity): the set holding the info, empty for None.
derive_layer_info(entity, order, mappings) ==
    IF ~attr_value(entity, "publishToGeoserver", FALSE) THEN {}
    ELSE IF attr_value(entity, "filePath", "") = "" THEN {}
    ELSE {[name |-> layer_name(entity),
           store_name |-> store_name_of(layer_name(entity)),
           title |-> layer_title(entity),
           geoserver_path |->
               translate_path(attr_value(entity, "filePath", ""),
                              order, mappings)]}

\* ------------------------------------------------ GeoServer's REST API
store_url(store_name) == "/coveragestores/" \o store_name
cov_url(store_name, coverage_name) ==
    store_url(store_name) \o "/coverages/" \o coverage_name

\* <url>file:{file_path}</url> of store_xml
store_xml_url(file_path) == "file:" \o file_path

StoreExists(store_name) == \E st \in gs_stores : st.name = store_name
CoverageExists(store_name, coverage_name) ==
    [store |-> store_name, name |-> coverage_name] \in gs_covs

\* A GeoServer that does not accept every request may answer any of
\* them with an error.
Refusals == IF gs_accepting THEN {} ELSE {500}

GetAnswers(exists) == (IF exists THEN {200} ELSE {404}) \cup Refusals

\* A store or coverage name is unique: GeoServer never creates a second,
\* and it creates nothing outside a workspace.
CreateAnswers(possible) ==
    IF possible /\ gs_workspace THEN {201} \cup Refusals ELSE {500}

UpdateAnswers == {200} \cup Refusals

Request(method, url, body) ==
    [method |-> method, url |-> url, body |-> body]

\* Defective variant: the store is created without looking at the answer.
store_missing_always(status) == TRUE

\* if r.status_code != 200: create, else: update
store_missing(status) == status /= 200

\* publish_layer returns, and with it sync_entity.
PublishReturn(value) ==
    /\ pl_result' = value
    /\ pl_pc' = "returned"
    /\ se_result' = value
    /\ se_pc' = "returned"

\* sync_entity(entity): derive_layer_info, then publish_layer is entered
\* unless there is nothing to publish.
SyncEntity ==
    /\ se_pc \in {"ready", "returned", "raised"}
    /\ se_calls < MaxSync
    /\ se_calls' = se_calls + 1
    /\ gs_log' = <<>>
    /\ pl_prev' = IF pl_pc = "returned"
                  THEN {[args |-> pl_args, stores |-> gs_stores,
                         covs |-> gs_covs]}
                  ELSE {}
    /\ \E order \in sorted_by_length(DOMAIN tp_map) :
          LET info == derive_layer_info(se_entity, order, tp_map)
          IN  IF info = {}
              THEN /\ se_result' = FALSE
                   /\ se_pc' = "returned"
                   /\ pl_args' = <<>>
                   /\ pl_pc' = "idle"
                   /\ pl_result' = FALSE
              ELSE LET i == CHOOSE x \in info : TRUE
                   IN  /\ pl_args' = [store_name |-> i.store_name,
                                      coverage_name |-> i.name,
                                      title |-> i.title,
                                      file_path |-> i.geoserver_path]
                       /\ pl_pc' = "get_store"
                       /\ se_pc' = "publishing"
                       /\ pl_result' = FALSE
                       /\ UNCHANGED se_result
    /\ UNCHANGED <<gs_stores, gs_covs, gs_accepting, se_entity, tvars,
                   yvars, nonsync>>

\* r = c.get(store_url)
GetStore ==
    /\ pl_pc = "get_store"
    /\ \E status \in GetAnswers(StoreExists(pl_args.store_name)) :
          pl_pc' = IF store_missing(status) THEN "post_store"
                   ELSE "put_store"
    /\ gs_log' = Append(gs_log,
                        Request("GET", store_url(pl_args.store_name), ""))
    /\ UNCHANGED <<gs_stores, gs_covs, gs_accepting, se_entity, se_pc,
                   se_result, se_calls, pl_args, pl_result, pl_prev,
                   tvars, yvars, nonsync>>

\* the store is missing: r = c.post(.../coveragestores, store_xml)
PostStore ==
    /\ pl_pc = "post_store"
    /\ gs_log' = Append(gs_log,
                        Request("POST", "/coveragestores",
                                store_xml_url(pl_args.file_path)))
    /\ \E status \in CreateAnswers(~StoreExists(pl_args.store_name)) :
          /\ gs_stores' =
                IF status = 201
                THEN gs_stores \cup
                     {[name |-> pl_args.store_name,
                       url |-> store_xml_url(pl_args.file_path)]}
                ELSE gs_stores
          /\ IF status \notin {200, 201}
             THEN PublishReturn(FALSE)
             ELSE /\ pl_pc' = "get_cov"
                  /\ UNCHANGED <<pl_result, se_result, se_pc>>
    /\ UNCHANGED <<gs_covs, gs_accepting, se_entity, se_calls, pl_args,
                   pl_prev, tvars, yvars, nonsync>>

\* the store exists: r = c.put(store_url, store_xml); the answer only
\* decides whether "Updated" is logged
PutStore ==
    /\ pl_pc = "put_store"
    /\ gs_log' = Append(gs_log,
                        Request("PUT", store_url(pl_args.store_name),
                                store_xml_url(pl_args.file_path)))
    /\ \E status \in UpdateAnswers :
          gs_stores' =
             IF status = 200
             THEN {IF st.name = pl_args.store_name
                   THEN [st EXCEPT !.url = store_xml_url(pl_args.file_path)]
                   ELSE st : st \in gs_stores}
             ELSE gs_stores
    /\ pl_pc' = "get_cov"
    /\ UNCHANGED <<gs_covs, gs_accepting, se_entity, se_pc, se_result,
                   se_calls, pl_args, pl_result, pl_prev, tvars, yvars,
                   nonsync>>

\* r = c.get(cov_url): an existing coverage ends the call
GetCoverage ==
    /\ pl_pc = "get_cov"
    /\ gs_log' = Append(gs_log,
                        Request("GET",
                                cov_url(pl_args.store_name,
                                        pl_args.coverage_name), ""))
    /\ \E status \in GetAnswers(CoverageExists(pl_args.store_name,
                                               pl_args.coverage_name)) :
          IF status = 200
          THEN PublishReturn(TRUE)
          ELSE /\ pl_pc' = "post_cov"
               /\ UNCHANGED <<pl_result, se_result, se_pc>>
    /\ UNCHANGED <<gs_stores, gs_covs, gs_accepting, se_entity, se_calls,
                   pl_args, pl_prev, tvars, yvars, nonsync>>

\* r = c.post(.../coverages, cov_xml)
PostCoverage ==
    /\ pl_pc = "post_cov"
    /\ gs_log' = Append(gs_log,
                        Request("POST",
                                store_url(pl_args.store_name)
                                    \o "/coverages",
                                pl_args.coverage_name))
    /\ \E status \in CreateAnswers(
                        /\ StoreExists(pl_args.store_name)
                        /\ ~CoverageExists(pl_args.store_name,
                                           pl_args.coverage_name)) :
          /\ gs_covs' =
                IF status = 201
                THEN gs_covs \cup {[store |-> pl_args.store_name,
                                    name |-> pl_args.coverage_name]}
                ELSE gs_covs
          /\ PublishReturn(status = 201)
    /\ UNCHANGED <<gs_stores, gs_accepting, se_entity, se_calls, pl_args,
                   pl_prev, tvars, yvars, nonsync>>

\* GeoServer cannot be reached: the request raises, out of
\* publish_layer and out of sync_entity.
PublishRaise ==
    /\ pl_pc \in {"get_store", "post_store", "put_store", "get_cov",
                  "post_cov"}
    /\ ~gs_accepting
    /\ pl_pc' = "raised"
    /\ se_pc' = "raised"
    /\ UNCHANGED <<gs_stores, gs_covs, gs_accepting, gs_log, se_entity,
                   se_result, se_calls, pl_args, pl_result, pl_prev,
                   tvars, yvars, nonsync>>

SyncStep ==
    \/ SyncEntity
    \/ GetStore
    \/ PostStore
    \/ PutStore
    \/ GetCoverage
    \/ PostCoverage
    \/ PublishRaise

\* ------------------------------------------------------ entities tried
EntityTypes == {"GeoSpatialLayer", "UHIHeatMap", "Sensor"}
FilePaths == {"/data/processed/ndvi.tif", "/data/raw/data/raw.tif",
              "/tmp/ndvi.tif"}

EntityId(type) == "urn:ngsi-ld:" \o type \o ":NDVI:brussels:2024"

\* The attributes that name the layer, for each type.
Naming(type) ==
    IF type = "GeoSpatialLayer"
    THEN {[layerType |-> l, geoserverLayer |-> {"uhi:ndvi"}] :
             l \in {{}, {"NDVI"}}}
    ELSE IF type = "UHIHeatMap"
    THEN {[layerType |-> {}, geoserverLayer |-> {}]}
    ELSE {[layerType |-> {}, geoserverLayer |-> g] :
             g \in {{}, {""}, {"heat"}, {"uhi:heat"}}}

Entities ==
    UNION {{[id |-> EntityId(t), type |-> t,
             publishToGeoserver |-> p, filePath |-> f,
             layerType |-> n.layerType,
             geoserverLayer |-> n.geoserverLayer,
             name |-> title] :
               n \in Naming(t),
               p \in {{}, {FALSE}, {TRUE}},
               f \in {{}, {""}} \cup {{x} : x \in FilePaths},
               title \in {{}, {"Vegetation index"}}} :
           t \in EntityTypes}

\* A store and coverage GeoServer holds for another layer.
OtherStore == [name |-> "store_rgb", url |-> "file:/opt/rgb.tif"]
OtherCoverage == [store |-> "store_rgb", name |-> "rgb"]

\* What GeoServer can hold for the layer of the entity before the run:
\* nothing, or its store with the URL of an earlier file or of this one,
\* with or without the coverage.
InitGeoServer(entity) ==
    LET name == layer_name(entity)
        store == store_name_of(name)
        urls == {"file:/opt/earlier.tif"} \cup
                {store_xml_url(translate_path(p, o, DefaultMappings)) :
                    p \in entity.filePath,
                    o \in sorted_by_length(DOMAIN DefaultMappings)}
    IN  \/ /\ gs_stores = {OtherStore}
           /\ gs_covs = {OtherCoverage}
        \/ /\ \E u \in urls :
                 gs_stores = {OtherStore, [name |-> store, url |-> u]}
           /\ \E c \in SUBSET {[store |-> store, name |-> name]} :
                 gs_covs = {OtherCoverage} \cup c

InitSync ==
    /\ se_entity \in Entities
    /\ InitGeoServer(se_entity)
    /\ gs_accepting \in BOOLEAN
    /\ gs_log = <<>>
    /\ se_pc = "ready"
    /\ se_result = FALSE
    /\ se_calls = 0
    /\ pl_args = <<>>
    /\ pl_pc = "idle"
    /\ pl_result = FALSE
    /\ pl_prev = {}
    /\ tp_path = ""
    /\ tp_map = DefaultMappings
    /\ tp_pc = "idle"
    /\ tp_order = <<>>
    /\ tp_warned = FALSE
    /\ tp_result = ""
    /\ gs_workspace = TRUE
    /\ sy_pc = "idle"
    /\ sy_attempt = 0
    /\ sy_done = <<>>
    /\ sy_first = ""
    /\ sy_ok = FALSE
    /\ sy_sub = {}
    /\ NoPipeline
    /\ IdleService
    /\ IdleIngestion
    /\ IdlePixel
    /\ IdleCog
    /\ IdleProfile
    /\ IdleStartup

SpecSync == InitSync /\ [][SyncStep]_vars

\* ================================================== claims on SpecSync
\* The entity must not be published.
NotPublished(entity) ==
    \/ entity.publishToGeoserver \in {{}, {FALSE}}
    \/ entity.filePath \in {{}, {""}}

\* The path GeoServer sees for a container path: the mapped prefix of
\* the longest configured prefix of the path, then the rest of the path.
Translated(path) ==
    LET m == {src \in DOMAIN tp_map : startswith(path, src)}
    IN  IF m = {} THEN path
        ELSE LET src == CHOOSE x \in m : \A y \in m : Len(y) <= Len(x)
             IN  tp_map[src] \o str_from(path, Len(src))

\* The requests of the current call that carry a store definition.
StoreBodies == {i \in DOMAIN gs_log : gs_log[i].method = "PUT"
                                      \/ gs_log[i].url = "/coveragestores"}

\* C38: for an entity whose publishToGeoserver is absent or false, or
\* whose filePath is absent or empty, sync_entity returns False, sends
\* no request to GeoServer and leaves GeoServer as it is; for every other
\* entity it calls publish_layer with the store name "store_" + layer
\* name and the translated file path, and the requests it sends address
\* that store and carry that path.
C38_NoTrafficUnlessPublished ==
    /\ [](se_calls > 0 =>
            IF NotPublished(se_entity)
            THEN /\ se_pc = "returned"
                 /\ se_result = FALSE
                 /\ pl_pc = "idle"
                 /\ gs_log = <<>>
            ELSE /\ pl_pc /= "idle"
                 /\ pl_args.store_name = "store_" \o pl_args.coverage_name
                 /\ \A p \in se_entity.filePath :
                       pl_args.file_path = Translated(p)
                 /\ se_pc = "returned" =>
                       /\ gs_log /= <<>>
                       /\ gs_log[1] =
                             Request("GET",
                                     "/coveragestores/store_"
                                         \o pl_args.coverage_name, "")
                 /\ \A i \in StoreBodies :
                       \A p \in se_entity.filePath :
                           gs_log[i].body = "file:" \o Translated(p))
    /\ [][NotPublished(se_entity) => UNCHANGED <<gs_stores, gs_covs>>]_vars

\* An entity flagged for publication but with an empty filePath was
\* synced twice while GeoServer holds the store of its layer with the
\* URL of an earlier file.
C38_Witness ==
    /\ se_calls = MaxSync
    /\ se_pc = "returned"
    /\ se_entity.publishToGeoserver = {TRUE}
    /\ se_entity.filePath = {""}
    /\ se_result = FALSE
    /\ \E st \in gs_stores :
          /\ st.name = store_name_of(layer_name(se_entity))
          /\ st.url = "file:/opt/earlier.tif"

\* Exactly one store of that name, with that URL, and exactly one
\* coverage of that name, under that store.
PublishedOnce(args) ==
    /\ Cardinality({st \in gs_stores : st.name = args.store_name}) = 1
    /\ \A st \in gs_stores :
          st.name = args.store_name => st.url = "file:" \o args.file_path
    /\ Cardinality({c \in gs_covs : c.name = args.coverage_name}) = 1
    /\ \A c \in gs_covs :
          c.name = args.coverage_name => c.store = args.store_name

\* C32: against a GeoServer that accepts the requests, a call of
\* publish_layer ends with exactly one coverage store named store_name
\* pointing at file_path and exactly one coverage named coverage_name;
\* a second call with the same arguments leaves GeoServer as the first
\* call left it, sends no POST and returns True.
C32_Idempotent ==
    (gs_accepting /\ pl_pc = "returned") =>
        /\ pl_result = TRUE
        /\ PublishedOnce(pl_args)
        /\ \A prev \in pl_prev :
              prev.args = pl_args =>
                  /\ gs_stores = prev.stores
                  /\ gs_covs = prev.covs
                  /\ \A i \in DOMAIN gs_log : gs_log[i].method /= "POST"

\* publish_layer returned True from its second call with the same
\* arguments, after three requests (GET, PUT, GET).
C32_Witness ==
    /\ gs_accepting
    /\ pl_pc = "returned"
    /\ se_calls = 2
    /\ \E prev \in pl_prev : prev.args = pl_args
    /\ Len(gs_log) = 3
    /\ pl_result = TRUE

\* C33: whenever publish_layer returns True, the coverage store
\* store_name exists in GeoServer with the URL file:<file_path> of this
\* call and the coverage coverage_name exists under it.
C33_TrueOnlyOnSuccess ==
    (pl_pc = "returned" /\ pl_result = TRUE) =>
        /\ [name |-> pl_args.store_name,
            url |-> "file:" \o pl_args.file_path] \in gs_stores
        /\ CoverageExists(pl_args.store_name, pl_args.coverage_name)

\* ====================================================================
\* GeoServer sync service: startup (lifespan) and register_subscription
\* ====================================================================

\* for attempt in range(10)
SyncAttempts == 10

\* geoserver.wait_until_ready: returns once GeoServer answers 200, and
\* raises RuntimeError after the timeout, which ends the startup.
WaitUntilReady ==
    /\ sy_pc = "wait"
    /\ \E outcome \in {"ready", "timeout"} :
          IF outcome = "ready"
          THEN /\ sy_pc' = "workspace"
               /\ sy_done' = Append(sy_done, "ready")
          ELSE /\ sy_pc' = "aborted"
               /\ UNCHANGED sy_done
    /\ UNCHANGED <<gs_workspace, sy_attempt, sy_first, sy_ok, sy_sub,
                   kvars, tvars, nonsync>>

\* What ensure_workspace can meet: the workspace is found; it is created;
\* the creation is refused (logged, and the function returns); a request
\* raises.
WorkspaceOutcomes ==
    (IF gs_workspace THEN {"exists"} ELSE {"created"}) \cup
    (IF gs_accepting THEN {} ELSE {"refused", "exception"})

\* geoserver.ensure_workspace
EnsureWorkspace ==
    /\ sy_pc = "workspace"
    /\ \E outcome \in WorkspaceOutcomes :
          IF outcome = "exception"
          THEN /\ sy_pc' = "aborted"
               /\ UNCHANGED <<sy_done, gs_workspace>>
          ELSE /\ sy_pc' = "sync"
               /\ sy_done' = Append(sy_done, "workspace")
               /\ gs_workspace' = (gs_workspace \/ outcome = "created")
    /\ UNCHANGED <<sy_attempt, sy_first, sy_ok, sy_sub, kvars, tvars,
                   nonsync>>

\* initial_sync: the queries to Orion. Either they give the entity Orion
\* holds, which is then synced, or they give nothing (no entity of the
\* type, an error status, or an exception, which initial_sync catches).
SyncQuery ==
    /\ sy_pc = "sync"
    /\ \E answer \in {"entity", "nothing"} :
          IF answer = "entity"
          THEN /\ se_calls < MaxSync
               /\ sy_pc' = "syncing"
               /\ se_pc' = "ready"
               /\ UNCHANGED sy_done
          ELSE /\ sy_pc' = "register"
               /\ sy_done' = Append(sy_done, "sync")
               /\ UNCHANGED se_pc
    /\ UNCHANGED <<gs_workspace, sy_attempt, sy_first, sy_ok, sy_sub,
                   gs_stores, gs_covs, gs_accepting, gs_log, se_entity,
                   se_result, se_calls, pl_args, pl_pc, pl_result, pl_prev,
                   tvars, nonsync>>

\* initial_sync: `if sync_entity(entity)`
StartupSyncEntity ==
    /\ sy_pc = "syncing"
    /\ se_pc = "ready"
    /\ SyncEntity

\* initial_sync ends: sync_entity returned, or it raised and the
\* exception was caught and logged.
SyncDone ==
    /\ sy_pc = "syncing"
    /\ se_pc \in {"returned", "raised"}
    /\ sy_pc' = "register"
    /\ sy_done' = Append(sy_done, "sync")
    /\ UNCHANGED <<gs_workspace, sy_attempt, sy_first, sy_ok, sy_sub,
                   kvars, tvars, nonsync>>

\* What Orion answers to a POST of the subscription when it holds the
\* definitions `held` under the id, or "exception" when the request
\* raises.
SubscriptionAnswers(held) ==
    (IF held = {} THEN {"201"} ELSE {"409"}) \cup {"error", "exception"}

\* register_subscription: the first POST. 201 returns; 409 goes on to
\* delete and re-create; another status is logged as an error and the
\* function returns; an exception leaves the function.
SubscribePost(outcome) ==
    /\ sy_pc = "register"
    /\ outcome \in SubscriptionAnswers(sy_sub)
    /\ sy_first' = outcome
    /\ sy_done' = Append(sy_done, "register")
    /\ sy_sub' = IF outcome = "201" THEN sy_sub \cup {"current"} ELSE sy_sub
    /\ sy_ok' = (sy_ok \/ outcome = "201")
    /\ sy_pc' = IF outcome = "409" THEN "recreate"
                ELSE IF outcome = "exception" THEN "raised"
                ELSE "returned"
    /\ UNCHANGED <<gs_workspace, sy_attempt, kvars, tvars, nonsync>>

\* register_subscription after 409: client.delete(...), whose answer is
\* not looked at, then the second POST.
SubscribeRecreate(del, outcome) ==
    /\ sy_pc = "recreate"
    /\ LET after == IF del = "deleted" THEN {} ELSE sy_sub
       IN  IF del = "exception"
           THEN /\ outcome = "exception"
                /\ sy_pc' = "raised"
                /\ UNCHANGED <<sy_sub, sy_ok>>
           ELSE /\ outcome \in SubscriptionAnswers(after)
                /\ sy_sub' = IF outcome = "201" THEN after \cup {"current"}
                             ELSE after
                /\ sy_ok' = (sy_ok \/ outcome = "201")
                /\ sy_pc' = IF outcome = "exception" THEN "raised"
                            ELSE "returned"
    /\ UNCHANGED <<gs_workspace, sy_attempt, sy_done, sy_first, kvars,
                   tvars, nonsync>>

\* The loop of lifespan: break when register_subscription returned; when
\* it raised, a warning, asyncio.sleep(5) and the next attempt; after the
\* loop the yield.
LifespanLoop ==
    /\ sy_pc \in {"returned", "raised"}
    /\ IF sy_pc = "returned"
       THEN /\ sy_pc' = "serving"
            /\ UNCHANGED sy_attempt
       ELSE /\ sy_attempt' = sy_attempt + 1
            /\ sy_pc' = IF sy_attempt + 1 < SyncAttempts THEN "sync"
                        ELSE "serving"
    /\ UNCHANGED <<gs_workspace, sy_done, sy_first, sy_ok, sy_sub, kvars,
                   tvars, nonsync>>

SyncStartupStep ==
    \/ WaitUntilReady
    \/ EnsureWorkspace
    \/ SyncQuery
    \/ SyncDone
    \/ \E outcome \in {"201", "409", "error", "exception"} :
          SubscribePost(outcome)
    \/ \E del \in {"deleted", "refused", "exception"},
          outcome \in {"201", "409", "error", "exception"} :
          SubscribeRecreate(del, outcome)
    \/ LifespanLoop

\* The requests of a call of publish_layer.
PublishStep ==
    \/ GetStore
    \/ PostStore
    \/ PutStore
    \/ GetCoverage
    \/ PostCoverage
    \/ PublishRaise

\* handle_notification: after the yield, a notification is synced.
SyncServing == sy_pc = "serving" /\ SyncEntity

\* The entities Orion can hold when the service starts.
StartupEntities ==
    {e \in Entities :
        /\ e.type = "GeoSpatialLayer"
        /\ e.layerType = {"NDVI"}
        /\ e.name = {}
        /\ e.publishToGeoserver /= {}
        /\ e.filePath \in {{}, {"/data/processed/ndvi.tif"}}}

\* ----------------------------------------- specification SpecSyncStartup
\* The sync service from its start: lifespan, then notifications.
InitSyncStartup ==
    /\ se_entity \in StartupEntities
    /\ gs_workspace \in BOOLEAN
    /\ IF gs_workspace THEN InitGeoServer(se_entity)
       ELSE gs_stores = {} /\ gs_covs = {}
    /\ gs_accepting \in BOOLEAN
    /\ gs_log = <<>>
    /\ se_pc = "ready"
    /\ se_result = FALSE
    /\ se_calls = 0
    /\ pl_args = <<>>
    /\ pl_pc = "idle"
    /\ pl_result = FALSE
    /\ pl_prev = {}
    /\ tp_path = ""
    /\ tp_map = DefaultMappings
    /\ tp_pc = "idle"
    /\ tp_order = <<>>
    /\ tp_warned = FALSE
    /\ tp_result = ""
    /\ sy_pc = "wait"
    /\ sy_attempt = 0
    /\ sy_done = <<>>
    /\ sy_first = ""
    /\ sy_ok = FALSE
    /\ sy_sub \in {{}, {"earlier"}, {"current"}}
    /\ NoPipeline
    /\ IdleService
    /\ IdleIngestion
    /\ IdlePixel
    /\ IdleCog
    /\ IdleProfile
    /\ IdleStartup

NextSyncStartup ==
    \/ SyncStartupStep
    \/ StartupSyncEntity
    \/ PublishStep
    \/ SyncServing

SpecSyncStartup == InitSyncStartup /\ [][NextSyncStartup]_vars

\* ========================================== claims on SpecSyncStartup
\* The startup steps come in the order ready, workspace, then initial
\* sync and registration in turn.
InStartupOrder ==
    \A i \in DOMAIN sy_done :
        sy_done[i] = IF i = 1 THEN "ready"
                     ELSE IF i = 2 THEN "workspace"
                     ELSE IF i % 2 = 1 THEN "sync"
                     ELSE "register"

\* The sync-and-subscribe attempts begun.
AttemptsBegun == Cardinality({i \in DOMAIN sy_done : sy_done[i] = "sync"})

\* C31: startup of the sync service performs, in this order: wait until
\* GeoServer is ready, ensure the workspace, initial sync, register the
\* subscription; a registration always follows a completed initial sync;
\* the sync-and-subscribe step is attempted at most 10 times, again only
\* after a failed attempt; and the service is serving only after a
\* successful registration or after 10 failed attempts.
C31_StartupSequence ==
    /\ InStartupOrder
    /\ AttemptsBegun <= 10
    /\ AttemptsBegun <= sy_attempt + 1
    /\ sy_pc = "serving" => (sy_ok \/ sy_attempt = 10)

\* C34: at no time two subscriptions are held under the id; when Orion
\* answered the first POST with 201 or 409, exactly the current
\* definition is held when register_subscription returns; and the
\* subscription Orion held when it answered 409 is not left deleted.
C34_RegisteredOrRecreated ==
    /\ [](Cardinality(sy_sub) <= 1)
    /\ []((sy_pc = "returned" /\ sy_first \in {"201", "409"})
             => sy_sub = {"current"})
    /\ [][sy_pc = "recreate" => sy_sub' /= {}]_vars

====
